---- MODULE Spec2Model ----
(***************************************************************************)
(* Streaming audio delivery engine of foo_out_avfoundation.                *)
(*                                                                         *)
(* AVFEngineImpl (engine.mm) is modelled statement by statement: every     *)
(* access to a shared field (_isEnabled, _isPaused, currentFormat, the     *)
(* renderer) is a step of its own, every std::lock_guard is an acquire     *)
(* step followed by a body-and-release step.  Host threads call the        *)
(* engine's methods; the render callback runs on the serial renderQueue.   *)
(***************************************************************************)
EXTENDS Integers, Sequences, FiniteSets, TLC

\* ------------------------------------------------------------------ bounds
\* Number of feedAudioData calls that may take a timestamp in one run.
MaxUnits == 3

\* Number of chunks process_samples_v2 may hand to the engine in one run.
MaxChunks == 4
\* buffers of the legacy engine whose completion handler has not run
MaxOutstanding == 6
\* largest count passed to neon_convert
MaxCount == 33

\* ------------------------------------------------------- program constants
DefaultQueueSize == 8
OutputQueueSize == 3
\* getCurrentLatency, in milliseconds: 0.015 per queued buffer, plus 0.01
BufferLatencyMs == 15
FixedLatencyMs == 10
\* EngineManager: _maxPendingBuffers = 3
MaxPendingBuffers == 3
MinQueueSize == 1
MaxQueueSize == 10

\* ------------------------------------------------------------ input domains
Hosts == {"h1", "h2"}
NoThread == "none"
RenderThread == "render"
QueueSizeArgs == {0, 1, 2, 11}
\* Arguments of feedAudioData: two chunks it can accept (they differ in frame count
\* and in sample rate) and one chunk for each way of being invalid.
ValidChunks ==
    {[sampleRate |-> 2, channels |-> 2, frameCount |-> 1, dataSize |-> 2],
     [sampleRate |-> 3, channels |-> 2, frameCount |-> 2, dataSize |-> 4]}
InvalidChunks ==
    {[sampleRate |-> 2, channels |-> 2, frameCount |-> 1, dataSize |-> 0],
     [sampleRate |-> 2, channels |-> 2, frameCount |-> 0, dataSize |-> 0],
     [sampleRate |-> 2, channels |-> 0, frameCount |-> 1, dataSize |-> 0]}
NoChunk == [sampleRate |-> 0, channels |-> 0, frameCount |-> 0, dataSize |-> 0]
\* Arguments of a direct setupAudioFormat call.
FormatArgs ==
    {[sampleRate |-> 0, channels |-> 0],
     [sampleRate |-> 2, channels |-> 2],
     [sampleRate |-> 3, channels |-> 2],
     [sampleRate |-> 2, channels |-> 3]}

VARIABLES
    nc,                         \* the neon_convert call: its buffers, arguments and locals
    em,                         \* the EngineManager object (legacy engine) and its callers
    hasRenderer,                \* renderer and synchronizer are non-nil
    isEnabled,                  \* _isEnabled
    isPaused,                   \* _isPaused
    currentFormat,              \* AVAudioFormat *currentFormat
    nextPresentationTime,       \* CMTime
    lastBufferPresentationTime, \* CMTime
    timestampMutex,             \* holder of the std::mutex, or NoThread
    sampleQueue,                \* std::queue<CMSampleBufferRef>
    sampleQueueMutex,           \* holder of the std::mutex, or NoThread
    maxQueueSize,               \* uint32_t maxQueueSize
    syncRate,                   \* synchronizer.rate
    requesting,                 \* renderer is requesting media data
    pc,                         \* position of each host thread
    loc,                        \* arguments, locals and result of each host thread
    rpc,                        \* position of the render callback
    rbuf,                       \* sampleBuffer local of renderFromQueue
    stamped,                    \* number of timestamps taken so far
    pushed,                     \* number of buffers pushed so far (buffer ids)
    rendered,                   \* ids handed to the renderer, in order
    releaseCount,               \* CFRelease calls per buffer id
    expectedPts,                \* end of the last accepted buffer since the timeline reset
    lastDuration,               \* duration of the last buffer that took a timestamp
    burst,                      \* results of consecutive feeds into an empty queue
    is_active,                  \* AVFOutput::is_active
    is_paused,                  \* AVFOutput::is_paused
    wpc,                        \* position of the host inside AVFOutput
    wchunk,                     \* p_chunk of the running process_samples_v2
    wret                        \* last value returned by process_samples_v2

flagVars == <<isEnabled, isPaused>>
timeVars == <<nextPresentationTime, lastBufferPresentationTime>>
mutexVars == <<timestampMutex, sampleQueueMutex>>
sinkVars == <<syncRate, requesting>>
renderVars == <<rpc, rbuf>>
ghostVars == <<stamped, pushed, rendered, releaseCount, expectedPts, lastDuration, burst>>
outputVars == <<is_active, is_paused, wpc, wchunk, wret>>
vars == <<nc, em, hasRenderer, isEnabled, isPaused, currentFormat, nextPresentationTime,
          lastBufferPresentationTime, timestampMutex, sampleQueue, sampleQueueMutex,
          maxQueueSize, syncRate, requesting, pc, loc, rpc, rbuf, stamped, pushed, rendered,
          releaseCount, expectedPts, lastDuration, burst, is_active, is_paused, wpc, wchunk, wret>>

\* ------------------------------------------------------------------ CMTime
RECURSIVE GCD(_, _)
GCD(a, b) == IF b = 0 THEN a ELSE GCD(b, a % b)

LCM(a, b) == (a * b) \div GCD(a, b)

kCMTimeZero == [value |-> 0, timescale |-> 1, valid |-> TRUE]

kCMTimeInvalid == [value |-> 0, timescale |-> 0, valid |-> FALSE]

CMTimeMake(value, timescale) == [value |-> value, timescale |-> timescale, valid |-> TRUE]

\* The sum keeps a common timescale, or moves to the least common multiple.
CMTimeAdd(a, b) ==
    IF ~a.valid \/ ~b.valid THEN kCMTimeInvalid
    ELSE IF a.timescale = b.timescale
         THEN [value |-> a.value + b.value, timescale |-> a.timescale, valid |-> TRUE]
         ELSE LET l == LCM(a.timescale, b.timescale)
              IN [value |-> a.value * (l \div a.timescale) + b.value * (l \div b.timescale),
                  timescale |-> l, valid |-> TRUE]

\* CMTimeCompare(a, b) == 0 for two valid times.
CMTimeEqual(a, b) ==
    /\ a.valid
    /\ b.valid
    /\ a.value * b.timescale = b.value * a.timescale

\* ----------------------------------------------------------------- formats
\* nil answers 0 to sampleRate and channelCount.
NoFormat == [sampleRate |-> 0, channelCount |-> 0, isNil |-> TRUE]

AVAudioFormat(sampleRate, channels) ==
    [sampleRate |-> sampleRate, channelCount |-> channels, isNil |-> FALSE]

FormatNeverMatches(fmt, sampleRate, channels) == FALSE

\* sampleRate == currentFormat.sampleRate && channels == currentFormat.channelCount
FormatMatches(fmt, sampleRate, channels) ==
    sampleRate = fmt.sampleRate /\ channels = fmt.channelCount

\* ----------------------------------------------------------- sample buffers
NoBuffer == [id |-> 0, frameCount |-> 0, sampleRate |-> 0]

CMSampleBuffer(id, frameCount, sampleRate) ==
    [id |-> id, frameCount |-> frameCount, sampleRate |-> sampleRate]

\* ------------------------------------------------------------ thread locals
NoLoc ==
    [op |-> "none", sampleRate |-> 0, channels |-> 0, frameCount |-> 0, dataSize |-> 0,
     size |-> 0, cpt |-> kCMTimeInvalid, fmt |-> NoFormat, caller |-> "none",
     ret |-> 0, ok |-> FALSE, appended |-> 0, outcome |-> "none"]

Goto(t, p) == pc' = [pc EXCEPT ![t] = p]

\* Control enters a method of the engine with fresh locals.
Invoke(t, op, first, args) ==
    /\ pc' = [pc EXCEPT ![t] = first]
    /\ loc' = [loc EXCEPT ![t] = [k \in DOMAIN NoLoc |->
                                    IF k = "op" THEN op
                                    ELSE IF k \in DOMAIN args THEN args[k]
                                    ELSE NoLoc[k]]]

\* The host calls the engine directly: the thread must be idle.
Begin(t, op, first, args) ==
    /\ pc[t] = "idle"
    /\ wpc = "none"
    /\ Invoke(t, op, first, args)

\* A call returns: the locals die, the result is handed to the caller.
Return(t, ret, ok, outcome) ==
    /\ pc' = [pc EXCEPT ![t] = "done"]
    /\ loc' = [loc EXCEPT ![t] = [NoLoc EXCEPT !.op = loc[t].op,
                                               !.frameCount = loc[t].frameCount,
                                               !.ret = ret, !.ok = ok,
                                               !.appended = loc[t].appended,
                                               !.outcome = outcome]]

NoArgs == [op |-> "none"]

\* static_cast<uint32_t>(sampleQueue.size())
pendingBufferCount == Len(sampleQueue)

\* ---------------------------------------------------------- ghost bookkeeping
NoBurst == [active |-> FALSE, rets |-> <<>>]

MaxBurst == MaxUnits + 2

MaxBuffers == IF MaxUnits > MaxChunks THEN MaxUnits ELSE MaxChunks

\* ---------------------------------------------------------------------- Init
\* AVFEngineImpl init
\* ------------------------------------------------ EngineManager, as constructed
\* Arguments of the legacy feedAudioData (sample rates in kHz); the last is invalid.
LegacyChunks ==
    {[sampleRate |-> 48, channels |-> 2, frameCount |-> 1],
     [sampleRate |-> 44, channels |-> 2, frameCount |-> 1],
     [sampleRate |-> 48, channels |-> 2, frameCount |-> 0]}

NoResult == [op |-> "none", ok |-> FALSE, how |-> "none"]

\* The ivars after init; scheduled and cancelled count the buffers on the player
\* node, and those removed from it by stop, whose completion handler has not run.
\* ppc and cpc are the positions of the producer and of the controlling thread.
NewEngineManager ==
    [isEnabled |-> FALSE, pendingBuffers |-> 0, nodesConnected |-> FALSE,
     currentFormat |-> NoFormat, lastSampleRate |-> 0, lastChannels |-> 0,
     scheduled |-> 0, cancelled |-> 0,
     ppc |-> "idle", sampleRate |-> 0, channels |-> 0, presult |-> "none", wokenBy |-> "none",
     cpc |-> "idle", result |-> NoResult,
     saved |-> [nodesConnected |-> FALSE, currentFormat |-> NoFormat]]

\* ------------------------------------------------------------- neon_convert
\* elements converted by one pass of the vector loop
BlockSize == 16
\* stands for SIZE_MAX, the value n wraps to when the loop ends; n is not read again
SizeMax == 2147483647

\* The buffers are longer than any count, so that an access past count shows.
Capacity == MaxCount + BlockSize
Untouched == 0 - 1

\* Doubles are the integers 0..15; a float keeps the even ones.  The narrowing
\* conversion rounds to nearest, ties to even, as vcvt_f32_f64 and (float) do.
Narrow(d) ==
    IF d % 2 = 0 THEN d
    ELSE IF (d \div 2) % 2 = 0 THEN d - 1 ELSE d + 1

\* Contents of the input buffer.
Inputs == {[i \in 0..(Capacity - 1) |-> (a * i + b) % 16] : a \in {1, 7}, b \in {0, 5}}

NoConvert ==
    [pc |-> "idle", input |-> [i \in 0..(Capacity - 1) |-> 0],
     output |-> [i \in 0..(Capacity - 1) |-> Untouched],
     count |-> 0, src |-> 0, dst |-> 0, n |-> 0, i |-> 0, d |-> <<>>,
     reads |-> {}, writes |-> {}]

InitEngine ==
    /\ nc = NoConvert
    /\ em = NewEngineManager
    /\ hasRenderer \in BOOLEAN
    /\ isEnabled = FALSE
    /\ isPaused = FALSE
    /\ currentFormat = NoFormat
    /\ nextPresentationTime = kCMTimeZero
    /\ lastBufferPresentationTime = kCMTimeInvalid
    /\ timestampMutex = NoThread
    /\ sampleQueue = <<>>
    /\ sampleQueueMutex = NoThread
    /\ maxQueueSize = DefaultQueueSize
    /\ syncRate = 0
    /\ requesting = FALSE
    /\ pc = [t \in Hosts |-> "idle"]
    /\ loc = [t \in Hosts |-> NoLoc]
    /\ rpc = "idle"
    /\ rbuf = NoBuffer
    /\ stamped = 0
    /\ pushed = 0
    /\ rendered = <<>>
    /\ releaseCount = [i \in 1..MaxBuffers |-> 0]
    /\ expectedPts = kCMTimeZero
    /\ lastDuration = kCMTimeZero
    /\ burst = NoBurst
    /\ is_active = FALSE
    /\ is_paused = FALSE
    /\ wchunk = NoChunk
    /\ wret = 0

\* An engine object on its own, called by the host.
Init == InitEngine /\ wpc = "none"

\* An AVFOutput whose constructor is about to run on its engine member.
InitOutput == InitEngine /\ wpc = "w_ctor"


\* --------------------------------------------------------------- queue helpers
\* Off by one: the queue is taken as full only once it holds more than max.
QueueFullOffByOne(q, max) == Len(q) > max

\* sampleQueue.size() >= maxQueueSize
QueueFull(q, max) == Len(q) >= max

\* sampleQueue.push(sampleBuffer)
Push(q, b) == Append(q, b)

\* The newest buffer instead of the oldest.
Back(q) == q[Len(q)]

\* sampleQueue.front()
Front(q) == Head(q)

\* sampleQueue.pop()
Pop(q) == Tail(q)

\* An if in place of the while: one buffer is removed.
DrainedOnce(q) == IF q = <<>> THEN q ELSE Tail(q)

\* while (!sampleQueue.empty()) { front; pop; CFRelease }: the queue afterwards
Drained(q) == <<>>

\* CFRelease of one buffer
Released(rc, b) == [rc EXCEPT ![b.id] = @ + 1]

\* while (!sampleQueue.empty()) { front; pop; CFRelease }: the release counts afterwards
RECURSIVE ReleasedAll(_, _)
ReleasedAll(rc, q) ==
    IF q = <<>> THEN rc ELSE ReleasedAll(Released(rc, Head(q)), Tail(q))

\* size > 0 && size <= 10
ValidQueueSizeNoLowerBound(size) == size <= MaxQueueSize

\* size > 0 && size <= 10
ValidQueueSize(size) == size >= MinQueueSize /\ size <= MaxQueueSize

\* audioData.size() == 0 || frameCount == 0 || channels == 0
InvalidAudioDataIgnoringSize(dataSize, frameCount, channels) ==
    frameCount = 0 \/ channels = 0

\* audioData.size() == 0 || frameCount == 0 || channels == 0
InvalidAudioData(dataSize, frameCount, channels) ==
    dataSize = 0 \/ frameCount = 0 \/ channels = 0

\* The reset forgotten: nextPresentationTime keeps its value.
KeptNextPresentationTime == nextPresentationTime

\* The value nextPresentationTime and lastBufferPresentationTime get on a reset.
ResetNextPresentationTime == kCMTimeZero

ResetLastBufferPresentationTime == kCMTimeInvalid

\* nextPresentationTime = CMTimeAdd(nextPresentationTime, frameDuration)
AdvancedPresentationTime(next, frameCount, sampleRate) ==
    CMTimeAdd(next, CMTimeMake(frameCount, sampleRate))

\* Feeds in flight that have not taken their timestamp yet.
BeforeStamp(t) ==
    /\ loc[t].op = "feedAudioData"
    /\ pc[t] \in {"f_enabled", "f_paused", "sf_cmp", "sf_commit", "f_lockq", "f_full",
                  "f_alloc", "f_stamp"}

FeedsInFlight == Cardinality({t \in Hosts : BeforeStamp(t)})

\* -------------------------------------------------------------- setQueueSize:
CallSetQueueSize(t) ==
    /\ \E size \in QueueSizeArgs : Begin(t, "setQueueSize", "sq_check", [size |-> size])
    /\ burst' = NoBurst
    /\ UNCHANGED <<nc, em, hasRenderer, flagVars, currentFormat, timeVars, mutexVars, sampleQueue,
                   maxQueueSize, sinkVars, renderVars, stamped, pushed, rendered, releaseCount,
                   expectedPts, lastDuration, outputVars>>

SetQueueSizeCheck(t) ==
    /\ pc[t] = "sq_check"
    /\ IF ValidQueueSize(loc[t].size)
       THEN /\ sampleQueueMutex = NoThread
            /\ sampleQueueMutex' = t
            /\ Goto(t, "sq_set")
            /\ UNCHANGED loc
       ELSE /\ Return(t, 0, FALSE, "invalid")
            /\ UNCHANGED sampleQueueMutex
    /\ UNCHANGED <<nc, em, hasRenderer, flagVars, currentFormat, timeVars, timestampMutex, sampleQueue,
                   maxQueueSize, sinkVars, renderVars, ghostVars, outputVars>>

SetQueueSizeSet(t) ==
    /\ pc[t] = "sq_set"
    /\ maxQueueSize' = loc[t].size
    /\ sampleQueueMutex' = NoThread
    /\ Return(t, 0, TRUE, "set")
    /\ UNCHANGED <<nc, em, hasRenderer, flagVars, currentFormat, timeVars, timestampMutex, sampleQueue,
                   sinkVars, renderVars, ghostVars, outputVars>>

\* ---------------------------------------------------------- setupAudioFormat:
\* feedAudioData goes on after a failed setupAudioFormat.
SetupReturnIgnoringFailure(t, ok) ==
    /\ Goto(t, IF loc[t].caller = "feedAudioData" THEN "f_lockq" ELSE "done")
    /\ loc' = [loc EXCEPT ![t].caller = "none", ![t].fmt = NoFormat, ![t].ok = ok]
    /\ UNCHANGED burst

\* setupAudioFormat returns to feedAudioData or to the host.
SetupReturn(t, ok) ==
    IF loc[t].caller = "feedAudioData"
    THEN IF ok
         THEN /\ Goto(t, "f_lockq")
              /\ loc' = [loc EXCEPT ![t].caller = "none", ![t].fmt = NoFormat]
              /\ UNCHANGED burst
         ELSE /\ Return(t, 0, FALSE, "format")
              /\ burst' = NoBurst
    ELSE /\ pc' = [pc EXCEPT ![t] = "done"]
         /\ loc' = [loc EXCEPT ![t] = [NoLoc EXCEPT !.op = loc[t].op,
                                                    !.sampleRate = loc[t].sampleRate,
                                                    !.channels = loc[t].channels,
                                                    !.caller = loc[t].caller,
                                                    !.ok = ok,
                                                    !.outcome = IF ok THEN "format_ok"
                                                                ELSE "format"]]
         /\ UNCHANGED burst

CallSetupAudioFormat(t) ==
    /\ \E args \in FormatArgs : Begin(t, "setupAudioFormat", "sf_cmp", args)
    /\ burst' = NoBurst
    /\ UNCHANGED <<nc, em, hasRenderer, flagVars, currentFormat, timeVars, mutexVars, sampleQueue,
                   maxQueueSize, sinkVars, renderVars, stamped, pushed, rendered, releaseCount,
                   expectedPts, lastDuration, outputVars>>

\* The host, still holding the arguments of a setupAudioFormat call that has
\* returned, makes the same call again; caller records what the first call returned.
CallSetupAudioFormatAgain(t) ==
    /\ pc[t] = "done"
    /\ wpc = "none"
    /\ loc[t].op = "setupAudioFormat"
    /\ loc[t].caller = "none"
    /\ Invoke(t, "setupAudioFormat", "sf_cmp",
              [sampleRate |-> loc[t].sampleRate, channels |-> loc[t].channels,
               caller |-> IF loc[t].ok THEN "again" ELSE "retry"])
    /\ UNCHANGED <<nc, em, hasRenderer, flagVars, currentFormat, timeVars, mutexVars, sampleQueue,
                   maxQueueSize, sinkVars, renderVars, ghostVars, outputVars>>

SetupCompare(t) ==
    /\ pc[t] = "sf_cmp"
    /\ IF ~hasRenderer
       THEN SetupReturn(t, FALSE)
       ELSE IF FormatMatches(currentFormat, loc[t].sampleRate, loc[t].channels)
            THEN SetupReturn(t, TRUE)
            ELSE \/ SetupReturn(t, FALSE)
                 \/ /\ Goto(t, "sf_commit")
                    /\ loc' = [loc EXCEPT ![t].fmt =
                                   AVAudioFormat(loc[t].sampleRate, loc[t].channels)]
                    /\ UNCHANGED burst
    /\ UNCHANGED <<nc, em, hasRenderer, flagVars, currentFormat, timeVars, mutexVars, sampleQueue,
                   maxQueueSize, sinkVars, renderVars, stamped, pushed, rendered, releaseCount,
                   expectedPts, lastDuration, outputVars>>

SetupCommit(t) ==
    /\ pc[t] = "sf_commit"
    /\ currentFormat' = loc[t].fmt
    /\ SetupReturn(t, TRUE)
    /\ UNCHANGED <<nc, em, hasRenderer, flagVars, timeVars, mutexVars, sampleQueue,
                   maxQueueSize, sinkVars, renderVars, stamped, pushed, rendered, releaseCount,
                   expectedPts, lastDuration, outputVars>>


\* ------------------------------------------------------------------- enable:
CallEnable(t) ==
    /\ Begin(t, "enable", "en_check", NoArgs)
    /\ burst' = NoBurst
    /\ UNCHANGED <<nc, em, hasRenderer, flagVars, currentFormat, timeVars, mutexVars, sampleQueue,
                   maxQueueSize, sinkVars, renderVars, stamped, pushed, rendered, releaseCount,
                   expectedPts, lastDuration, outputVars>>

EnableCheckAlwaysResets(t) ==
    /\ pc[t] = "en_check"
    /\ IF ~hasRenderer THEN Return(t, 0, FALSE, "missing")
       ELSE Goto(t, "en_rate") /\ UNCHANGED loc
    /\ UNCHANGED <<nc, em, hasRenderer, flagVars, currentFormat, timeVars, mutexVars, sampleQueue,
                   maxQueueSize, sinkVars, renderVars, ghostVars, outputVars>>

EnableCheckIgnoringMissing(t) ==
    /\ pc[t] = "en_check"
    /\ IF isEnabled THEN Return(t, 0, TRUE, "already")
       ELSE Goto(t, "en_rate") /\ UNCHANGED loc
    /\ UNCHANGED <<nc, em, hasRenderer, flagVars, currentFormat, timeVars, mutexVars, sampleQueue,
                   maxQueueSize, sinkVars, renderVars, ghostVars, outputVars>>

\* if (_isEnabled) return true; if (renderer == nil || synchronizer == nil) return false;
EnableCheck(t) ==
    /\ pc[t] = "en_check"
    /\ IF isEnabled THEN Return(t, 0, TRUE, "already")
       ELSE IF ~hasRenderer THEN Return(t, 0, FALSE, "missing")
       ELSE Goto(t, "en_rate") /\ UNCHANGED loc
    /\ UNCHANGED <<nc, em, hasRenderer, flagVars, currentFormat, timeVars, mutexVars, sampleQueue,
                   maxQueueSize, sinkVars, renderVars, ghostVars, outputVars>>

\* [synchronizer setRate:1.0]; renderer.volume = 1.0; renderer.muted = NO;
EnableSetRate(t) ==
    /\ pc[t] = "en_rate"
    /\ syncRate' = 1
    /\ Goto(t, "en_lockts")
    /\ UNCHANGED <<nc, em, hasRenderer, flagVars, currentFormat, timeVars, mutexVars, sampleQueue,
                   maxQueueSize, requesting, loc, renderVars, ghostVars, outputVars>>

EnableLockTimestamp(t) ==
    /\ pc[t] = "en_lockts"
    /\ timestampMutex = NoThread
    /\ timestampMutex' = t
    /\ Goto(t, "en_reset")
    /\ UNCHANGED <<nc, em, hasRenderer, flagVars, currentFormat, timeVars, sampleQueueMutex,
                   sampleQueue, maxQueueSize, sinkVars, loc, renderVars, ghostVars,
                   outputVars>>

\* The timestamp lock_guard outlives its block: enable goes on to the queue
\* with timestampMutex still held.
EnableResetKeepingLock(t) ==
    /\ pc[t] = "en_reset"
    /\ nextPresentationTime' = ResetNextPresentationTime
    /\ lastBufferPresentationTime' = ResetLastBufferPresentationTime
    /\ expectedPts' = kCMTimeZero
    /\ lastDuration' = kCMTimeZero
    /\ Goto(t, "en_lockq")
    /\ UNCHANGED <<nc, em, hasRenderer, flagVars, currentFormat, mutexVars, sampleQueue,
                   maxQueueSize, sinkVars, loc, renderVars, stamped, pushed, rendered, releaseCount,
                   burst, outputVars>>

EnableResetTimestamp(t) ==
    /\ pc[t] = "en_reset"
    /\ nextPresentationTime' = ResetNextPresentationTime
    /\ lastBufferPresentationTime' = ResetLastBufferPresentationTime
    /\ expectedPts' = kCMTimeZero
    /\ lastDuration' = kCMTimeZero
    /\ timestampMutex' = NoThread
    /\ Goto(t, "en_lockq")
    /\ UNCHANGED <<nc, em, hasRenderer, flagVars, currentFormat, sampleQueueMutex, sampleQueue,
                   maxQueueSize, sinkVars, loc, renderVars, stamped, pushed, rendered, releaseCount,
                   burst, outputVars>>

EnableLockQueue(t) ==
    /\ pc[t] = "en_lockq"
    /\ sampleQueueMutex = NoThread
    /\ sampleQueueMutex' = t
    /\ Goto(t, "en_clear")
    /\ UNCHANGED <<nc, em, hasRenderer, flagVars, currentFormat, timeVars, timestampMutex,
                   sampleQueue, maxQueueSize, sinkVars, loc, renderVars, ghostVars,
                   outputVars>>

EnableClearQueue(t) ==
    /\ pc[t] = "en_clear"
    /\ releaseCount' = ReleasedAll(releaseCount, sampleQueue)
    /\ sampleQueue' = Drained(sampleQueue)
    /\ sampleQueueMutex' = NoThread
    /\ Goto(t, "en_request")
    /\ UNCHANGED <<nc, em, hasRenderer, flagVars, currentFormat, timeVars, timestampMutex,
                   maxQueueSize, sinkVars, loc, renderVars, stamped, pushed, rendered, expectedPts, lastDuration,
                   burst, outputVars>>

\* [renderer requestMediaDataWhenReadyOnQueue:renderQueue usingBlock:...]
EnableRequestMediaData(t) ==
    /\ pc[t] = "en_request"
    /\ requesting' = TRUE
    /\ Goto(t, "en_unpause")
    /\ UNCHANGED <<nc, em, hasRenderer, flagVars, currentFormat, timeVars, mutexVars, sampleQueue,
                   maxQueueSize, syncRate, loc, renderVars, ghostVars, outputVars>>

EnableClearPaused(t) ==
    /\ pc[t] = "en_unpause"
    /\ isPaused' = FALSE
    /\ Goto(t, "en_set")
    /\ UNCHANGED <<nc, em, hasRenderer, isEnabled, currentFormat, timeVars, mutexVars, sampleQueue,
                   maxQueueSize, sinkVars, loc, renderVars, ghostVars, outputVars>>

EnableSetEnabled(t) ==
    /\ pc[t] = "en_set"
    /\ isEnabled' = TRUE
    /\ Return(t, 0, TRUE, "enabled")
    /\ UNCHANGED <<nc, em, hasRenderer, isPaused, currentFormat, timeVars, mutexVars, sampleQueue,
                   maxQueueSize, sinkVars, renderVars, ghostVars, outputVars>>

\* ------------------------------------------------------------------ disable:
CallDisable(t) ==
    /\ Begin(t, "disable", "di_check", NoArgs)
    /\ burst' = NoBurst
    /\ UNCHANGED <<nc, em, hasRenderer, flagVars, currentFormat, timeVars, mutexVars, sampleQueue,
                   maxQueueSize, sinkVars, renderVars, stamped, pushed, rendered, releaseCount,
                   expectedPts, lastDuration, outputVars>>

DisableCheck(t) ==
    /\ pc[t] = "di_check"
    /\ IF ~isEnabled THEN Return(t, 0, FALSE, "already")
       ELSE Goto(t, "di_stop") /\ UNCHANGED loc
    /\ UNCHANGED <<nc, em, hasRenderer, flagVars, currentFormat, timeVars, mutexVars, sampleQueue,
                   maxQueueSize, sinkVars, renderVars, ghostVars, outputVars>>

\* [renderer stopRequestingMediaData]: no new callback starts; one in flight goes on.
DisableStopRequesting(t) ==
    /\ pc[t] = "di_stop"
    /\ requesting' = FALSE
    /\ Goto(t, "di_lockq")
    /\ UNCHANGED <<nc, em, hasRenderer, flagVars, currentFormat, timeVars, mutexVars, sampleQueue,
                   maxQueueSize, syncRate, loc, renderVars, ghostVars, outputVars>>

DisableLockQueue(t) ==
    /\ pc[t] = "di_lockq"
    /\ sampleQueueMutex = NoThread
    /\ sampleQueueMutex' = t
    /\ Goto(t, "di_clear")
    /\ UNCHANGED <<nc, em, hasRenderer, flagVars, currentFormat, timeVars, timestampMutex,
                   sampleQueue, maxQueueSize, sinkVars, loc, renderVars, ghostVars,
                   outputVars>>

DisableClearQueue(t) ==
    /\ pc[t] = "di_clear"
    /\ releaseCount' = ReleasedAll(releaseCount, sampleQueue)
    /\ sampleQueue' = Drained(sampleQueue)
    /\ sampleQueueMutex' = NoThread
    /\ Goto(t, "di_rate")
    /\ UNCHANGED <<nc, em, hasRenderer, flagVars, currentFormat, timeVars, timestampMutex,
                   maxQueueSize, sinkVars, loc, renderVars, stamped, pushed, rendered, expectedPts, lastDuration,
                   burst, outputVars>>

\* if (synchronizer != nil) { synchronizer.rate = 0.0; [renderer flush]; }
DisableStopRate(t) ==
    /\ pc[t] = "di_rate"
    /\ syncRate' = IF hasRenderer THEN 0 ELSE syncRate
    /\ Goto(t, "di_clear_enabled")
    /\ UNCHANGED <<nc, em, hasRenderer, flagVars, currentFormat, timeVars, mutexVars, sampleQueue,
                   maxQueueSize, requesting, loc, renderVars, ghostVars, outputVars>>

DisableClearEnabled(t) ==
    /\ pc[t] = "di_clear_enabled"
    /\ isEnabled' = FALSE
    /\ Goto(t, "di_clear_paused")
    /\ UNCHANGED <<nc, em, hasRenderer, isPaused, currentFormat, timeVars, mutexVars, sampleQueue,
                   maxQueueSize, sinkVars, loc, renderVars, ghostVars, outputVars>>

DisableClearPaused(t) ==
    /\ pc[t] = "di_clear_paused"
    /\ isPaused' = FALSE
    /\ Return(t, 0, TRUE, "disabled")
    /\ UNCHANGED <<nc, em, hasRenderer, isEnabled, currentFormat, timeVars, mutexVars, sampleQueue,
                   maxQueueSize, sinkVars, renderVars, ghostVars, outputVars>>


\* -------------------------------------------------------------------- pause:
CallPause(t) ==
    /\ Begin(t, "pause", "pa_check", NoArgs)
    /\ burst' = NoBurst
    /\ UNCHANGED <<nc, em, hasRenderer, flagVars, currentFormat, timeVars, mutexVars, sampleQueue,
                   maxQueueSize, sinkVars, renderVars, stamped, pushed, rendered, releaseCount,
                   expectedPts, lastDuration, outputVars>>

PauseCheckMissing(t) ==
    /\ pc[t] = "pa_check"
    /\ Goto(t, "pa_set") /\ UNCHANGED loc
    /\ UNCHANGED <<nc, em, hasRenderer, flagVars, currentFormat, timeVars, mutexVars, sampleQueue,
                   maxQueueSize, sinkVars, renderVars, ghostVars, outputVars>>

\* if (!_isEnabled) return;
PauseCheck(t) ==
    /\ pc[t] = "pa_check"
    /\ IF ~isEnabled THEN Return(t, 0, FALSE, "ignored")
       ELSE Goto(t, "pa_set") /\ UNCHANGED loc
    /\ UNCHANGED <<nc, em, hasRenderer, flagVars, currentFormat, timeVars, mutexVars, sampleQueue,
                   maxQueueSize, sinkVars, renderVars, ghostVars, outputVars>>

PauseSetPaused(t) ==
    /\ pc[t] = "pa_set"
    /\ isPaused' = TRUE
    /\ Goto(t, "pa_rate")
    /\ UNCHANGED <<nc, em, hasRenderer, isEnabled, currentFormat, timeVars, mutexVars, sampleQueue,
                   maxQueueSize, sinkVars, loc, renderVars, ghostVars, outputVars>>

\* synchronizer.rate = 0.0
PauseStopRate(t) ==
    /\ pc[t] = "pa_rate"
    /\ syncRate' = 0
    /\ Return(t, 0, TRUE, "paused")
    /\ UNCHANGED <<nc, em, hasRenderer, flagVars, currentFormat, timeVars, mutexVars, sampleQueue,
                   maxQueueSize, requesting, renderVars, ghostVars, outputVars>>

\* ------------------------------------------------------------------- resume:
CallResume(t) ==
    /\ Begin(t, "resume", "re_enabled", NoArgs)
    /\ burst' = NoBurst
    /\ UNCHANGED <<nc, em, hasRenderer, flagVars, currentFormat, timeVars, mutexVars, sampleQueue,
                   maxQueueSize, sinkVars, renderVars, stamped, pushed, rendered, releaseCount,
                   expectedPts, lastDuration, outputVars>>

\* if (!_isEnabled || ...
ResumeCheckEnabled(t) ==
    /\ pc[t] = "re_enabled"
    /\ IF ~isEnabled THEN Return(t, 0, FALSE, "ignored")
       ELSE Goto(t, "re_paused") /\ UNCHANGED loc
    /\ UNCHANGED <<nc, em, hasRenderer, flagVars, currentFormat, timeVars, mutexVars, sampleQueue,
                   maxQueueSize, sinkVars, renderVars, ghostVars, outputVars>>

\* ... || !_isPaused) return;
ResumeCheckPaused(t) ==
    /\ pc[t] = "re_paused"
    /\ IF ~isPaused THEN Return(t, 0, FALSE, "ignored")
       ELSE Goto(t, "re_rate") /\ UNCHANGED loc
    /\ UNCHANGED <<nc, em, hasRenderer, flagVars, currentFormat, timeVars, mutexVars, sampleQueue,
                   maxQueueSize, sinkVars, renderVars, ghostVars, outputVars>>

\* synchronizer.rate = 1.0
ResumeStartRate(t) ==
    /\ pc[t] = "re_rate"
    /\ syncRate' = 1
    /\ Goto(t, "re_clear")
    /\ UNCHANGED <<nc, em, hasRenderer, flagVars, currentFormat, timeVars, mutexVars, sampleQueue,
                   maxQueueSize, requesting, loc, renderVars, ghostVars, outputVars>>

ResumeClearPausedSkipped(t) ==
    /\ pc[t] = "re_clear"
    /\ Return(t, 0, TRUE, "resumed")
    /\ UNCHANGED <<nc, em, hasRenderer, flagVars, currentFormat, timeVars, mutexVars, sampleQueue,
                   maxQueueSize, sinkVars, renderVars, ghostVars, outputVars>>

\* _isPaused = false;
ResumeClearPaused(t) ==
    /\ pc[t] = "re_clear"
    /\ isPaused' = FALSE
    /\ Return(t, 0, TRUE, "resumed")
    /\ UNCHANGED <<nc, em, hasRenderer, isEnabled, currentFormat, timeVars, mutexVars, sampleQueue,
                   maxQueueSize, sinkVars, renderVars, ghostVars, outputVars>>

\* -------------------------------------------------------------------- flush:
CallFlush(t) ==
    /\ Begin(t, "flush", "fl_check", NoArgs)
    /\ burst' = NoBurst
    /\ UNCHANGED <<nc, em, hasRenderer, flagVars, currentFormat, timeVars, mutexVars, sampleQueue,
                   maxQueueSize, sinkVars, renderVars, stamped, pushed, rendered, releaseCount,
                   expectedPts, lastDuration, outputVars>>

FlushCheckMissing(t) ==
    /\ pc[t] = "fl_check"
    /\ Goto(t, "fl_lockts") /\ UNCHANGED loc
    /\ UNCHANGED <<nc, em, hasRenderer, flagVars, currentFormat, timeVars, mutexVars, sampleQueue,
                   maxQueueSize, sinkVars, renderVars, ghostVars, outputVars>>

FlushCheck(t) ==
    /\ pc[t] = "fl_check"
    /\ IF ~isEnabled THEN Return(t, 0, FALSE, "ignored")
       ELSE Goto(t, "fl_lockts") /\ UNCHANGED loc
    /\ UNCHANGED <<nc, em, hasRenderer, flagVars, currentFormat, timeVars, mutexVars, sampleQueue,
                   maxQueueSize, sinkVars, renderVars, ghostVars, outputVars>>

\* flush takes no notice of who holds timestampMutex.
FlushLockTimestampNoWait(t) ==
    /\ pc[t] = "fl_lockts"
    /\ timestampMutex' = t
    /\ Goto(t, "fl_reset")
    /\ UNCHANGED <<nc, em, hasRenderer, flagVars, currentFormat, timeVars, sampleQueueMutex,
                   sampleQueue, maxQueueSize, sinkVars, loc, renderVars, ghostVars,
                   outputVars>>

FlushLockTimestamp(t) ==
    /\ pc[t] = "fl_lockts"
    /\ timestampMutex = NoThread
    /\ timestampMutex' = t
    /\ Goto(t, "fl_reset")
    /\ UNCHANGED <<nc, em, hasRenderer, flagVars, currentFormat, timeVars, sampleQueueMutex,
                   sampleQueue, maxQueueSize, sinkVars, loc, renderVars, ghostVars,
                   outputVars>>

FlushResetTimestamp(t) ==
    /\ pc[t] = "fl_reset"
    /\ nextPresentationTime' = ResetNextPresentationTime
    /\ lastBufferPresentationTime' = ResetLastBufferPresentationTime
    /\ expectedPts' = kCMTimeZero
    /\ lastDuration' = kCMTimeZero
    /\ timestampMutex' = NoThread
    /\ Goto(t, "fl_renderer")
    /\ UNCHANGED <<nc, em, hasRenderer, flagVars, currentFormat, sampleQueueMutex, sampleQueue,
                   maxQueueSize, sinkVars, loc, renderVars, stamped, pushed, rendered, releaseCount,
                   burst, outputVars>>

\* if (renderer != nil) [renderer flush]; the sample queue is not touched.
FlushRenderer(t) ==
    /\ pc[t] = "fl_renderer"
    /\ Return(t, 0, TRUE, "flushed")
    /\ UNCHANGED <<nc, em, hasRenderer, flagVars, currentFormat, timeVars, mutexVars, sampleQueue,
                   maxQueueSize, sinkVars, renderVars, ghostVars, outputVars>>

\* ---------------------------------------------------------- renderFromQueue:
\* The renderer invokes the block registered by enable on the serial renderQueue.
RenderInvoke ==
    /\ rpc = "idle"
    /\ requesting
    /\ rpc' = "rq_enabled"
    /\ UNCHANGED <<nc, em, hasRenderer, flagVars, currentFormat, timeVars, mutexVars, sampleQueue,
                   maxQueueSize, sinkVars, pc, loc, rbuf, ghostVars, outputVars>>

\* if (!_isEnabled || ...
RenderCheckEnabled ==
    /\ rpc = "rq_enabled"
    /\ rpc' = IF ~isEnabled THEN "idle" ELSE "rq_paused"
    /\ UNCHANGED <<nc, em, hasRenderer, flagVars, currentFormat, timeVars, mutexVars, sampleQueue,
                   maxQueueSize, sinkVars, pc, loc, rbuf, ghostVars, outputVars>>

\* ... || _isPaused) return;
RenderCheckPaused ==
    /\ rpc = "rq_paused"
    /\ rpc' = IF isPaused THEN "idle" ELSE "rq_lock"
    /\ UNCHANGED <<nc, em, hasRenderer, flagVars, currentFormat, timeVars, mutexVars, sampleQueue,
                   maxQueueSize, sinkVars, pc, loc, rbuf, ghostVars, outputVars>>

RenderLockQueue ==
    /\ rpc = "rq_lock"
    /\ sampleQueueMutex = NoThread
    /\ sampleQueueMutex' = RenderThread
    /\ rpc' = "rq_pop"
    /\ UNCHANGED <<nc, em, hasRenderer, flagVars, currentFormat, timeVars, timestampMutex,
                   sampleQueue, maxQueueSize, sinkVars, pc, loc, rbuf, ghostVars, outputVars>>

\* if (sampleQueue.empty()) return; sampleBuffer = front(); pop();
RenderPop ==
    /\ rpc = "rq_pop"
    /\ IF sampleQueue = <<>>
       THEN /\ rpc' = "idle"
            /\ UNCHANGED <<sampleQueue, rbuf, burst>>
       ELSE /\ rbuf' = Front(sampleQueue)
            /\ sampleQueue' = Pop(sampleQueue)
            /\ burst' = NoBurst
            /\ rpc' = "rq_enqueue"
    /\ sampleQueueMutex' = NoThread
    /\ UNCHANGED <<nc, em, hasRenderer, flagVars, currentFormat, timeVars, timestampMutex,
                   maxQueueSize, sinkVars, pc, loc, stamped, pushed, rendered, releaseCount,
                   expectedPts, lastDuration, outputVars>>

\* [renderer enqueueSampleBuffer:sampleBuffer]; CFRelease(sampleBuffer);
RenderEnqueue ==
    /\ rpc = "rq_enqueue"
    /\ rendered' = Append(rendered, rbuf.id)
    /\ releaseCount' = Released(releaseCount, rbuf)
    /\ rbuf' = NoBuffer
    /\ rpc' = "idle"
    /\ UNCHANGED <<nc, em, hasRenderer, flagVars, currentFormat, timeVars, mutexVars, sampleQueue,
                   maxQueueSize, sinkVars, pc, loc, stamped, pushed, expectedPts, lastDuration, burst, outputVars>>


\* ------------------------------------------------------------ feedAudioData:
BurstOnFeed ==
    IF isEnabled /\ ~isPaused /\ sampleQueue = <<>>
    THEN [active |-> TRUE, rets |-> <<>>]
    ELSE burst

BurstAfterFeed(b, ret, frameCount, outcome) ==
    IF ~b.active THEN b
    ELSE IF outcome \in {"accepted", "full"} /\ Len(b.rets) < MaxBurst
         THEN [b EXCEPT !.rets = Append(@, IF ret = frameCount THEN "all"
                                           ELSE IF ret = 0 THEN "zero" ELSE "part")]
         ELSE NoBurst

FeedReturn(t, ret, outcome) ==
    /\ Return(t, ret, ret # 0, outcome)
    /\ burst' = BurstAfterFeed(burst, ret, loc[t].frameCount, outcome)

CallFeedAudioData(t) ==
    /\ stamped + FeedsInFlight < MaxUnits
    /\ \E chunk \in ValidChunks \cup InvalidChunks :
          Begin(t, "feedAudioData", "f_enabled", chunk)
    /\ burst' = BurstOnFeed
    /\ UNCHANGED <<nc, em, hasRenderer, flagVars, currentFormat, timeVars, mutexVars, sampleQueue,
                   maxQueueSize, sinkVars, renderVars, stamped, pushed, rendered, releaseCount,
                   expectedPts, lastDuration, outputVars>>

\* if (!_isEnabled || ...
FeedCheckEnabled(t) ==
    /\ pc[t] = "f_enabled"
    /\ IF ~isEnabled THEN FeedReturn(t, 0, "gate")
       ELSE Goto(t, "f_paused") /\ UNCHANGED <<loc, burst>>
    /\ UNCHANGED <<nc, em, hasRenderer, flagVars, currentFormat, timeVars, mutexVars, sampleQueue,
                   maxQueueSize, sinkVars, renderVars, stamped, pushed, rendered, releaseCount,
                   expectedPts, lastDuration, outputVars>>

FeedCheckPausedMissing(t) ==
    /\ pc[t] = "f_paused"
    /\ IF InvalidAudioData(loc[t].dataSize, loc[t].frameCount, loc[t].channels)
       THEN FeedReturn(t, 0, "invalid")
       ELSE /\ Goto(t, "sf_cmp")
            /\ loc' = [loc EXCEPT ![t].caller = "feedAudioData"]
            /\ UNCHANGED burst
    /\ UNCHANGED <<nc, em, hasRenderer, flagVars, currentFormat, timeVars, mutexVars, sampleQueue,
                   maxQueueSize, sinkVars, renderVars, stamped, pushed, rendered, releaseCount,
                   expectedPts, lastDuration, outputVars>>

\* ... || _isPaused) return 0; then the argument check, then setupAudioFormat.
FeedCheckPaused(t) ==
    /\ pc[t] = "f_paused"
    /\ IF isPaused THEN FeedReturn(t, 0, "gate")
       ELSE IF InvalidAudioData(loc[t].dataSize, loc[t].frameCount, loc[t].channels)
            THEN FeedReturn(t, 0, "invalid")
            ELSE /\ Goto(t, "sf_cmp")
                 /\ loc' = [loc EXCEPT ![t].caller = "feedAudioData"]
                 /\ UNCHANGED burst
    /\ UNCHANGED <<nc, em, hasRenderer, flagVars, currentFormat, timeVars, mutexVars, sampleQueue,
                   maxQueueSize, sinkVars, renderVars, stamped, pushed, rendered, releaseCount,
                   expectedPts, lastDuration, outputVars>>

FeedLockQueue(t) ==
    /\ pc[t] = "f_lockq"
    /\ sampleQueueMutex = NoThread
    /\ sampleQueueMutex' = t
    /\ Goto(t, "f_full")
    /\ UNCHANGED <<nc, em, hasRenderer, flagVars, currentFormat, timeVars, timestampMutex,
                   sampleQueue, maxQueueSize, sinkVars, loc, renderVars, ghostVars,
                   outputVars>>

\* A feed that waits for space: on a full queue it unlocks and tries again.
FeedCheckFullWaiting(t) ==
    /\ pc[t] = "f_full"
    /\ sampleQueueMutex' = NoThread
    /\ Goto(t, IF QueueFull(sampleQueue, maxQueueSize) THEN "f_lockq" ELSE "f_alloc")
    /\ UNCHANGED <<nc, em, hasRenderer, flagVars, currentFormat, timeVars, timestampMutex,
                   sampleQueue, maxQueueSize, sinkVars, loc, renderVars, ghostVars,
                   outputVars>>

\* if (sampleQueue.size() >= maxQueueSize) return 0;
FeedCheckFull(t) ==
    /\ pc[t] = "f_full"
    /\ sampleQueueMutex' = NoThread
    /\ IF QueueFull(sampleQueue, maxQueueSize) THEN FeedReturn(t, 0, "full")
       ELSE Goto(t, "f_alloc") /\ UNCHANGED <<loc, burst>>
    /\ UNCHANGED <<nc, em, hasRenderer, flagVars, currentFormat, timeVars, timestampMutex,
                   sampleQueue, maxQueueSize, sinkVars, renderVars, stamped, pushed,
                   rendered,
                   releaseCount, expectedPts, lastDuration, outputVars>>

\* CFAllocatorAllocate and CMBlockBufferCreateWithMemoryBlock may fail; otherwise
\* the thread goes on to lock timestampMutex.
FeedAllocate(t) ==
    /\ pc[t] = "f_alloc"
    /\ \/ /\ FeedReturn(t, 0, "alloc")
          /\ UNCHANGED timestampMutex
       \/ /\ timestampMutex = NoThread
          /\ timestampMutex' = t
          /\ Goto(t, "f_stamp")
          /\ UNCHANGED <<loc, burst>>
    /\ UNCHANGED <<nc, em, hasRenderer, flagVars, currentFormat, timeVars, sampleQueueMutex,
                   sampleQueue, maxQueueSize, sinkVars, renderVars, stamped, pushed,
                   rendered,
                   releaseCount, expectedPts, lastDuration, outputVars>>

\* currentPresentationTime = nextPresentationTime; nextPresentationTime += frameDuration;
\* lastBufferPresentationTime = currentPresentationTime;
FeedStamp(t) ==
    /\ pc[t] = "f_stamp"
    /\ loc' = [loc EXCEPT ![t].cpt = nextPresentationTime]
    /\ stamped' = stamped + 1
    /\ nextPresentationTime' =
           AdvancedPresentationTime(nextPresentationTime, loc[t].frameCount, loc[t].sampleRate)
    /\ lastBufferPresentationTime' = nextPresentationTime
    /\ lastDuration' = CMTimeMake(loc[t].frameCount, loc[t].sampleRate)
    /\ timestampMutex' = NoThread
    /\ Goto(t, "f_create")
    /\ UNCHANGED <<nc, em, hasRenderer, flagVars, currentFormat, sampleQueueMutex, sampleQueue,
                   maxQueueSize, sinkVars, renderVars, pushed, rendered, releaseCount,
                   expectedPts, burst, outputVars>>

\* The three statements under timestampMutex, one at a time, for the
\* specification in which another thread resets the timeline.
\* currentPresentationTime = nextPresentationTime;
FeedReadTime(t) ==
    /\ pc[t] = "f_stamp"
    /\ loc' = [loc EXCEPT ![t].cpt = nextPresentationTime]
    /\ stamped' = stamped + 1
    /\ Goto(t, "f_advance")
    /\ UNCHANGED <<nc, em, hasRenderer, flagVars, currentFormat, timeVars, mutexVars, sampleQueue,
                   maxQueueSize, sinkVars, renderVars, pushed, rendered, releaseCount,
                   expectedPts, lastDuration, burst, outputVars>>

\* nextPresentationTime = CMTimeAdd(nextPresentationTime, frameDuration);
FeedAdvanceTime(t) ==
    /\ pc[t] = "f_advance"
    /\ nextPresentationTime' =
           AdvancedPresentationTime(nextPresentationTime, loc[t].frameCount, loc[t].sampleRate)
    /\ Goto(t, "f_record")
    /\ UNCHANGED <<nc, em, hasRenderer, flagVars, currentFormat, lastBufferPresentationTime, mutexVars,
                   sampleQueue, maxQueueSize, sinkVars, loc, renderVars, ghostVars, outputVars>>

\* lastBufferPresentationTime = currentPresentationTime; and the lock_guard ends
FeedRecordTime(t) ==
    /\ pc[t] = "f_record"
    /\ lastBufferPresentationTime' = loc[t].cpt
    /\ lastDuration' = CMTimeMake(loc[t].frameCount, loc[t].sampleRate)
    /\ timestampMutex' = NoThread
    /\ Goto(t, "f_create")
    /\ UNCHANGED <<nc, em, hasRenderer, flagVars, currentFormat, nextPresentationTime, sampleQueueMutex,
                   sampleQueue, maxQueueSize, sinkVars, loc, renderVars, stamped, pushed,
                   rendered, releaseCount, expectedPts, burst, outputVars>>

\* CMSampleBufferCreateReady(..., currentFormat.formatDescription, ...) may fail.
FeedCreateSampleBuffer(t) ==
    /\ pc[t] = "f_create"
    /\ \/ FeedReturn(t, 0, "create")
       \/ /\ Goto(t, "f_lockpush")
          /\ UNCHANGED <<loc, burst>>
    /\ UNCHANGED <<nc, em, hasRenderer, flagVars, currentFormat, timeVars, mutexVars, sampleQueue,
                   maxQueueSize, sinkVars, renderVars, stamped, pushed, rendered, releaseCount,
                   expectedPts, lastDuration, outputVars>>

FeedLockPush(t) ==
    /\ pc[t] = "f_lockpush"
    /\ sampleQueueMutex = NoThread
    /\ sampleQueueMutex' = t
    /\ Goto(t, "f_push")
    /\ UNCHANGED <<nc, em, hasRenderer, flagVars, currentFormat, timeVars, timestampMutex,
                   sampleQueue, maxQueueSize, sinkVars, loc, renderVars, ghostVars,
                   outputVars>>

AcceptedFramesTruncated(frameCount) == frameCount - 1

\* return frameCount;
AcceptedFrames(frameCount) == frameCount

\* sampleQueue.push(sampleBuffer); return frameCount;
FeedPush(t) ==
    /\ pc[t] = "f_push"
    /\ sampleQueue' = Push(sampleQueue,
                           CMSampleBuffer(pushed + 1, loc[t].frameCount, loc[t].sampleRate))
    /\ pushed' = pushed + 1
    /\ sampleQueueMutex' = NoThread
    /\ expectedPts' = CMTimeAdd(loc[t].cpt, CMTimeMake(loc[t].frameCount, loc[t].sampleRate))
    /\ UNCHANGED lastDuration
    /\ pc' = [pc EXCEPT ![t] = "done"]
    /\ loc' = [loc EXCEPT ![t] = [NoLoc EXCEPT !.op = "feedAudioData",
                                               !.frameCount = loc[t].frameCount,
                                               !.ret = AcceptedFrames(loc[t].frameCount),
                                               !.ok = TRUE,
                                               !.appended = loc[t].appended + 1,
                                               !.outcome = "accepted"]]
    /\ burst' = BurstAfterFeed(burst, AcceptedFrames(loc[t].frameCount), loc[t].frameCount,
                               "accepted")
    /\ UNCHANGED <<nc, em, hasRenderer, flagVars, currentFormat, timeVars, timestampMutex,
                   maxQueueSize, sinkVars, renderVars, stamped, rendered, releaseCount,
                   outputVars>>

\* --------------------------------------------------- isReadyForMoreMediaData:
HasSpaceOrFull(q, max) == Len(q) <= max

\* sampleQueue.size() < maxQueueSize
HasSpace(q, max) == Len(q) < max

CallIsReady(t) ==
    /\ Begin(t, "isReadyForMoreMediaData", "rd_enabled", NoArgs)
    /\ burst' = NoBurst
    /\ UNCHANGED <<nc, em, hasRenderer, flagVars, currentFormat, timeVars, mutexVars, sampleQueue,
                   maxQueueSize, sinkVars, renderVars, stamped, pushed, rendered, releaseCount,
                   expectedPts, lastDuration, outputVars>>

\* if (!_isEnabled || ...
ReadyCheckEnabled(t) ==
    /\ pc[t] = "rd_enabled"
    /\ IF ~isEnabled THEN Return(t, 0, FALSE, "not_ready")
       ELSE Goto(t, "rd_paused") /\ UNCHANGED loc
    /\ UNCHANGED <<nc, em, hasRenderer, flagVars, currentFormat, timeVars, mutexVars, sampleQueue,
                   maxQueueSize, sinkVars, renderVars, ghostVars, outputVars>>

\* ... || _isPaused) return false;
ReadyCheckPaused(t) ==
    /\ pc[t] = "rd_paused"
    /\ IF isPaused THEN Return(t, 0, FALSE, "not_ready")
       ELSE Goto(t, "rd_lock") /\ UNCHANGED loc
    /\ UNCHANGED <<nc, em, hasRenderer, flagVars, currentFormat, timeVars, mutexVars, sampleQueue,
                   maxQueueSize, sinkVars, renderVars, ghostVars, outputVars>>

ReadyLockQueue(t) ==
    /\ pc[t] = "rd_lock"
    /\ sampleQueueMutex = NoThread
    /\ sampleQueueMutex' = t
    /\ Goto(t, "rd_compare")
    /\ UNCHANGED <<nc, em, hasRenderer, flagVars, currentFormat, timeVars, timestampMutex,
                   sampleQueue, maxQueueSize, sinkVars, loc, renderVars, ghostVars,
                   outputVars>>

\* return sampleQueue.size() < maxQueueSize;
ReadyCompare(t) ==
    /\ pc[t] = "rd_compare"
    /\ sampleQueueMutex' = NoThread
    /\ Return(t, 0, HasSpace(sampleQueue, maxQueueSize), "compared")
    /\ UNCHANGED <<nc, em, hasRenderer, flagVars, currentFormat, timeVars, timestampMutex,
                   sampleQueue, maxQueueSize, sinkVars, renderVars, ghostVars, outputVars>>

\* --------------------------------------------------------- getCurrentLatency:
RECURSIVE QueuedFrames(_)
QueuedFrames(q) == IF q = <<>> THEN 0 ELSE Head(q).frameCount + QueuedFrames(Tail(q))

\* The latency taken from the frames that are queued.
QueueLatencyByFrames(q) == QueuedFrames(q) * BufferLatencyMs

\* queueLatency = sampleQueue.size() * 0.015
QueueLatency(q) == Len(q) * BufferLatencyMs

\* totalLatency = queueLatency + 0.01
TotalLatency(queueLatency) == queueLatency + FixedLatencyMs

CallGetCurrentLatency(t) ==
    /\ Begin(t, "getCurrentLatency", "gl_check", NoArgs)
    /\ burst' = NoBurst
    /\ UNCHANGED <<nc, em, hasRenderer, flagVars, currentFormat, timeVars, mutexVars, sampleQueue,
                   maxQueueSize, sinkVars, renderVars, stamped, pushed, rendered, releaseCount,
                   expectedPts, lastDuration, outputVars>>

\* if (!_isEnabled || !currentFormat) return 0.01;
LatencyCheck(t) ==
    /\ pc[t] = "gl_check"
    /\ IF ~isEnabled \/ currentFormat.isNil THEN Return(t, FixedLatencyMs, TRUE, "fixed")
       ELSE Goto(t, "gl_lock") /\ UNCHANGED loc
    /\ UNCHANGED <<nc, em, hasRenderer, flagVars, currentFormat, timeVars, mutexVars, sampleQueue,
                   maxQueueSize, sinkVars, renderVars, ghostVars, outputVars>>

LatencyLockQueue(t) ==
    /\ pc[t] = "gl_lock"
    /\ sampleQueueMutex = NoThread
    /\ sampleQueueMutex' = t
    /\ Goto(t, "gl_read")
    /\ UNCHANGED <<nc, em, hasRenderer, flagVars, currentFormat, timeVars, timestampMutex,
                   sampleQueue, maxQueueSize, sinkVars, loc, renderVars, ghostVars,
                   outputVars>>

\* queueLatency = sampleQueue.size() * 0.015; return queueLatency + 0.01;
LatencyRead(t) ==
    /\ pc[t] = "gl_read"
    /\ sampleQueueMutex' = NoThread
    /\ Return(t, TotalLatency(QueueLatency(sampleQueue)), TRUE, "queue")
    /\ UNCHANGED <<nc, em, hasRenderer, flagVars, currentFormat, timeVars, timestampMutex,
                   sampleQueue, maxQueueSize, sinkVars, renderVars, ghostVars, outputVars>>

\* ------------------------------------------------------------ return to host
\* The caller has taken the result; the thread is free for its next call.
HostReturn(t) ==
    /\ pc[t] = "done"
    /\ wpc = "none"
    /\ pc' = [pc EXCEPT ![t] = "idle"]
    /\ loc' = [loc EXCEPT ![t] = NoLoc]
    /\ UNCHANGED <<nc, em, hasRenderer, flagVars, currentFormat, timeVars, mutexVars, sampleQueue,
                   maxQueueSize, sinkVars, renderVars, ghostVars, outputVars>>

\* ------------------------------------------------------------------ AVFOutput
\* The host thread of an AVFOutput; its methods run the engine's methods step by
\* step and go on when the engine call has returned.
OutputThread == "h1"

\* Chunks the host can pass: used_size is sample_count * channels.
OutputChunks == {c \in ValidChunks \cup InvalidChunks : c.dataSize = c.frameCount * c.channels}

EngineReturned == pc[OutputThread] = "done"

\* AVFOutput(): engine.setQueueSize(3); ...
OutputConstruct ==
    /\ wpc = "w_ctor"
    /\ pc[OutputThread] = "idle"
    /\ Invoke(OutputThread, "setQueueSize", "sq_check", [size |-> OutputQueueSize])
    /\ wpc' = "w_ctor_enable"
    /\ UNCHANGED <<nc, em, hasRenderer, flagVars, currentFormat, timeVars, mutexVars, sampleQueue,
                   maxQueueSize, sinkVars, renderVars, ghostVars, is_active, is_paused, wchunk, wret>>

\* ... if (engine.enable()) ...
OutputConstructEnable ==
    /\ wpc = "w_ctor_enable"
    /\ EngineReturned
    /\ Invoke(OutputThread, "enable", "en_check", NoArgs)
    /\ wpc' = "w_ctor_active"
    /\ UNCHANGED <<nc, em, hasRenderer, flagVars, currentFormat, timeVars, mutexVars, sampleQueue,
                   maxQueueSize, sinkVars, renderVars, ghostVars, is_active, is_paused, wchunk, wret>>

\* ... is_active = true;
OutputConstructActive ==
    /\ wpc = "w_ctor_active"
    /\ EngineReturned
    /\ is_active' = loc[OutputThread].ok
    /\ wpc' = "w_return"
    /\ UNCHANGED <<nc, em, hasRenderer, flagVars, currentFormat, timeVars, mutexVars, sampleQueue,
                   maxQueueSize, sinkVars, pc, loc, renderVars, ghostVars, is_paused, wchunk, wret>>

\* process_samples_v2: the two early returns, else engine.setupAudioFormat(...)
OutputProcessSamples ==
    /\ wpc = "w_idle"
    /\ stamped < MaxChunks
    /\ \E chunk \in OutputChunks :
          /\ wchunk' = chunk
          /\ IF ~is_active \/ is_paused \/ chunk.frameCount = 0 \/ chunk.channels = 0
             THEN /\ wret' = 0
                  /\ wpc' = "w_psv2_return"
                  /\ UNCHANGED <<pc, loc>>
             ELSE /\ Invoke(OutputThread, "setupAudioFormat", "sf_cmp",
                            [sampleRate |-> chunk.sampleRate, channels |-> chunk.channels])
                  /\ wpc' = "w_psv2_feed"
                  /\ UNCHANGED wret
    /\ burst' = NoBurst
    /\ UNCHANGED <<nc, em, hasRenderer, flagVars, currentFormat, timeVars, mutexVars, sampleQueue,
                   maxQueueSize, sinkVars, renderVars, stamped, pushed, rendered,
                   releaseCount, expectedPts, lastDuration, is_active, is_paused>>

\* ... the samples are converted and handed to engine.feedAudioData(...)
OutputProcessFeed ==
    /\ wpc = "w_psv2_feed"
    /\ EngineReturned
    /\ Invoke(OutputThread, "feedAudioData", "f_enabled", wchunk)
    /\ burst' = BurstOnFeed
    /\ wpc' = "w_psv2_result"
    /\ UNCHANGED <<nc, em, hasRenderer, flagVars, currentFormat, timeVars, mutexVars, sampleQueue,
                   maxQueueSize, sinkVars, renderVars, stamped, pushed, rendered,
                   releaseCount, expectedPts, lastDuration, is_active, is_paused, wchunk, wret>>

\* ... return processed_samples;
OutputProcessResult ==
    /\ wpc = "w_psv2_result"
    /\ EngineReturned
    /\ wret' = loc[OutputThread].ret
    /\ wpc' = "w_psv2_return"
    /\ UNCHANGED <<nc, em, hasRenderer, flagVars, currentFormat, timeVars, mutexVars, sampleQueue,
                   maxQueueSize, sinkVars, pc, loc, renderVars, ghostVars, is_active,
                   is_paused, wchunk>>

\* pause(p_state): is_paused = p_state; engine.pause() or engine.resume()
OutputPause ==
    /\ wpc = "w_idle"
    /\ \E p_state \in BOOLEAN :
          /\ is_paused' = p_state
          /\ IF p_state
             THEN Invoke(OutputThread, "pause", "pa_check", NoArgs)
             ELSE Invoke(OutputThread, "resume", "re_enabled", NoArgs)
    /\ burst' = NoBurst
    /\ wpc' = "w_return"
    /\ UNCHANGED <<nc, em, hasRenderer, flagVars, currentFormat, timeVars, mutexVars, sampleQueue,
                   maxQueueSize, sinkVars, renderVars, stamped, pushed, rendered,
                   releaseCount, expectedPts, lastDuration, is_active, wchunk, wret>>

\* flush(): engine.flush()
OutputFlush ==
    /\ wpc = "w_idle"
    /\ Invoke(OutputThread, "flush", "fl_check", NoArgs)
    /\ burst' = NoBurst
    /\ wpc' = "w_return"
    /\ UNCHANGED <<nc, em, hasRenderer, flagVars, currentFormat, timeVars, mutexVars, sampleQueue,
                   maxQueueSize, sinkVars, renderVars, stamped, pushed, rendered,
                   releaseCount, expectedPts, lastDuration, is_active, is_paused, wchunk, wret>>

\* force_play(): is_paused = false; engine.disable(); ...
OutputForcePlay ==
    /\ wpc = "w_idle"
    /\ is_paused' = FALSE
    /\ Invoke(OutputThread, "disable", "di_check", NoArgs)
    /\ burst' = NoBurst
    /\ wpc' = "w_fp_enable"
    /\ UNCHANGED <<nc, em, hasRenderer, flagVars, currentFormat, timeVars, mutexVars, sampleQueue,
                   maxQueueSize, sinkVars, renderVars, stamped, pushed, rendered,
                   releaseCount, expectedPts, lastDuration, is_active, wchunk, wret>>

\* ... engine.enable();
OutputForcePlayEnable ==
    /\ wpc = "w_fp_enable"
    /\ EngineReturned
    /\ Invoke(OutputThread, "enable", "en_check", NoArgs)
    /\ wpc' = "w_return"
    /\ UNCHANGED <<nc, em, hasRenderer, flagVars, currentFormat, timeVars, mutexVars, sampleQueue,
                   maxQueueSize, sinkVars, renderVars, ghostVars, is_active, is_paused, wchunk, wret>>

\* The method of AVFOutput returns to the host.
OutputReturn ==
    /\ \/ wpc = "w_return" /\ EngineReturned
       \/ wpc = "w_psv2_return"
    /\ wpc' = "w_idle"
    /\ wchunk' = NoChunk
    /\ pc' = [pc EXCEPT ![OutputThread] = "idle"]
    /\ loc' = [loc EXCEPT ![OutputThread] = NoLoc]
    /\ UNCHANGED <<nc, em, hasRenderer, flagVars, currentFormat, timeVars, mutexVars, sampleQueue,
                   maxQueueSize, sinkVars, renderVars, ghostVars, is_active, is_paused, wret>>

\* ------------------------------------------------- EngineManager (engine.h)
avfVars == <<hasRenderer, flagVars, currentFormat, timeVars, mutexVars, sampleQueue,
             maxQueueSize, sinkVars, pc, loc, renderVars, ghostVars, outputVars>>

\* [_playerNode stop]: the node drops its buffers; their handlers are still to run.
Stopped(e) == [e EXCEPT !.cancelled = e.cancelled + e.scheduled, !.scheduled = 0]

\* [_playbackCondition signal] / broadcast: the waiting producer, if any, wakes.
Wake(e, by) ==
    IF e.ppc = "lf_blocked" THEN [e EXCEPT !.ppc = "lf_wait", !.wokenBy = by] ELSE e

\* The producer's call has returned.
LegacyFeedReturn(e, how) ==
    [e EXCEPT !.ppc = "idle", !.presult = how, !.sampleRate = 0, !.channels = 0,
              !.wokenBy = "none"]

\* The controller's call has returned.
LegacyReturn(e, op, ok, how) ==
    [e EXCEPT !.cpc = "idle", !.result = [op |-> op, ok |-> ok, how |-> how]]

\* feedAudioData: if (!_isEnabled) return; if (... frameCount == 0 || channels == 0) return;
LegacyFeedEnter ==
    /\ em.ppc = "idle"
    /\ \E chunk \in LegacyChunks :
          em' = IF ~em.isEnabled THEN LegacyFeedReturn(em, "gate")
                ELSE IF chunk.frameCount = 0 \/ chunk.channels = 0
                     THEN LegacyFeedReturn(em, "invalid")
                     ELSE [em EXCEPT !.ppc = "lf_format", !.presult = "none",
                                     !.sampleRate = chunk.sampleRate,
                                     !.channels = chunk.channels]
    /\ em.scheduled + em.cancelled < MaxOutstanding
    /\ UNCHANGED <<nc, avfVars>>

\* if (_currentFormat == nil || _lastSampleRate != sampleRate || _lastChannels != channels)
\* { _currentFormat = [[AVAudioFormat alloc] ...]; if nil return; connect; ... }
LegacyFeedFormat ==
    /\ em.ppc = "lf_format"
    /\ IF em.currentFormat.isNil \/ em.lastSampleRate # em.sampleRate
                                 \/ em.lastChannels # em.channels
       THEN \/ em' = LegacyFeedReturn([em EXCEPT !.currentFormat = NoFormat], "format")
            \/ em' = [em EXCEPT !.currentFormat = AVAudioFormat(em.sampleRate, em.channels),
                                !.nodesConnected = TRUE,
                                !.lastSampleRate = em.sampleRate,
                                !.lastChannels = em.channels,
                                !.ppc = "lf_buffer"]
       ELSE em' = [em EXCEPT !.ppc = "lf_buffer"]
    /\ UNCHANGED <<nc, avfVars>>

\* AVAudioPCMBuffer alloc and the channel pointers may fail; otherwise the data is copied.
LegacyFeedBuffer ==
    /\ em.ppc = "lf_buffer"
    /\ \/ em' = LegacyFeedReturn(em, "buffer")
       \/ em' = [em EXCEPT !.ppc = "lf_wait"]
    /\ UNCHANGED <<nc, avfVars>>

\* lock; while (_pendingBuffers >= _maxPendingBuffers && _isEnabled) wait; unlock
LegacyFeedWait ==
    /\ em.ppc = "lf_wait"
    /\ em' = [em EXCEPT !.ppc = IF em.pendingBuffers >= MaxPendingBuffers /\ em.isEnabled
                                THEN "lf_blocked" ELSE "lf_recheck"]
    /\ UNCHANGED <<nc, avfVars>>

\* if (!_isEnabled) return;
LegacyFeedRecheck ==
    /\ em.ppc = "lf_recheck"
    /\ em' = IF ~em.isEnabled THEN LegacyFeedReturn(em, "disabled")
             ELSE [em EXCEPT !.ppc = "lf_count"]
    /\ UNCHANGED <<nc, avfVars>>

\* lock; _pendingBuffers++; unlock
LegacyFeedCount ==
    /\ em.ppc = "lf_count"
    /\ em' = [em EXCEPT !.pendingBuffers = em.pendingBuffers + 1, !.ppc = "lf_schedule"]
    /\ UNCHANGED <<nc, avfVars>>

\* [_playerNode scheduleBuffer:buffer completionHandler:...]; play; sleep; return
LegacyFeedSchedule ==
    /\ em.ppc = "lf_schedule"
    /\ em' = LegacyFeedReturn([em EXCEPT !.scheduled = em.scheduled + 1], "scheduled")
    /\ UNCHANGED <<nc, avfVars>>

\* The completion handler of one buffer: lock; _pendingBuffers--; signal; unlock
LegacyCompletion ==
    /\ \/ /\ em.scheduled > 0
          /\ em' = Wake([em EXCEPT !.scheduled = em.scheduled - 1,
                                   !.pendingBuffers = em.pendingBuffers - 1], "handler")
       \/ /\ em.cancelled > 0
          /\ em' = Wake([em EXCEPT !.cancelled = em.cancelled - 1,
                                   !.pendingBuffers = em.pendingBuffers - 1], "handler")
    /\ UNCHANGED <<nc, avfVars>>

\* enable: if (_isEnabled) return true;
LegacyEnableCheck ==
    /\ em.cpc = "idle"
    /\ em' = IF em.isEnabled THEN LegacyReturn(em, "enable", TRUE, "already")
             ELSE [em EXCEPT !.cpc = "le_setup", !.result = NoResult,
                             !.saved = [nodesConnected |-> em.nodesConnected,
                                        currentFormat |-> em.currentFormat]]
    /\ UNCHANGED <<nc, avfVars>>

\* _currentFormat = [[AVAudioFormat alloc] ... 48000.0 channels:2]; if nil return false;
\* connect; connect; _nodesConnected = true;
LegacyEnableSetup ==
    /\ em.cpc = "le_setup"
    /\ \/ em' = LegacyReturn([em EXCEPT !.currentFormat = NoFormat], "enable", FALSE, "format")
       \/ em' = [em EXCEPT !.currentFormat = AVAudioFormat(48, 2), !.nodesConnected = TRUE,
                           !.cpc = "le_start"]
    /\ UNCHANGED <<nc, avfVars>>

\* if ([_audioEngine startAndReturnError:&error]) { _isEnabled = true; ... return true; }
\* else return false;
LegacyEnableStart ==
    /\ em.cpc = "le_start"
    /\ \/ em' = LegacyReturn([em EXCEPT !.isEnabled = TRUE, !.saved = NewEngineManager.saved],
                              "enable", TRUE, "started")
       \/ em' = LegacyReturn(em, "enable", FALSE, "start")
    /\ UNCHANGED <<nc, avfVars>>

\* disable: if (!_isEnabled) return; [_playerNode stop];
LegacyDisableCheck ==
    /\ em.cpc = "idle"
    /\ em' = IF ~em.isEnabled THEN LegacyReturn(em, "disable", TRUE, "already")
             ELSE [Stopped(em) EXCEPT !.cpc = "ld_reset", !.result = NoResult,
                                      !.saved = NewEngineManager.saved]
    /\ UNCHANGED <<nc, avfVars>>

\* lock; _isEnabled = false; _pendingBuffers = 0; broadcast; unlock
LegacyDisableReset ==
    /\ em.cpc = "ld_reset"
    /\ em' = Wake([em EXCEPT !.isEnabled = FALSE, !.pendingBuffers = 0,
                             !.cpc = "ld_disconnect"], "disable")
    /\ UNCHANGED <<nc, avfVars>>

\* if (_nodesConnected) { disconnect; _nodesConnected = false; } [_audioEngine stop];
LegacyDisableDisconnect ==
    /\ em.cpc = "ld_disconnect"
    /\ em' = LegacyReturn([em EXCEPT !.nodesConnected = FALSE], "disable", TRUE, "disabled")
    /\ UNCHANGED <<nc, avfVars>>

\* flush: if (_isEnabled) { [_playerNode stop];
LegacyFlushCheck ==
    /\ em.cpc = "idle"
    /\ em' = IF ~em.isEnabled THEN LegacyReturn(em, "flush", TRUE, "ignored")
             ELSE [Stopped(em) EXCEPT !.cpc = "lfl_reset", !.result = NoResult,
                                      !.saved = NewEngineManager.saved]
    /\ UNCHANGED <<nc, avfVars>>

\* lock; _pendingBuffers = 0; broadcast; unlock; [_playerNode play]; }
LegacyFlushReset ==
    /\ em.cpc = "lfl_reset"
    /\ em' = LegacyReturn(Wake([em EXCEPT !.pendingBuffers = 0], "flush"),
                          "flush", TRUE, "flushed")
    /\ UNCHANGED <<nc, avfVars>>

\* ------------------------------------------------- neon_convert (actions)
\* A vector loop that also takes the incomplete last block.
BlocksRoundedUp(count) == (count + BlockSize - 1) \div BlockSize

\* size_t n = count / 16;
Blocks(count) == count \div BlockSize

\* size_t remaining = count % 16;
Remaining(count) == count % BlockSize

\* neon_convert(input, output, count): src = input; dst = output; n = count / 16;
CallNeonConvert ==
    /\ nc.pc \in {"idle", "done"}
    /\ \E input \in Inputs, count \in 0..MaxCount :
          nc' = [NoConvert EXCEPT !.pc = "loop", !.input = input, !.count = count,
                                  !.n = Blocks(count)]
    /\ UNCHANGED <<em, avfVars>>

\* while (n--)
NeonLoopTest ==
    /\ nc.pc = "loop"
    /\ nc' = [nc EXCEPT !.n = IF nc.n = 0 THEN SizeMax ELSE nc.n - 1,
                        !.pc = IF nc.n # 0 THEN "load" ELSE "tail"]
    /\ UNCHANGED <<em, avfVars>>

\* d1 = vld1q_f64(src); ... d8 = vld1q_f64(src + 14); src += 16;
NeonLoad ==
    /\ nc.pc = "load"
    /\ nc' = [nc EXCEPT !.d = [k \in 1..BlockSize |-> nc.input[nc.src + k - 1]],
                        !.reads = nc.reads \cup (nc.src..(nc.src + BlockSize - 1)),
                        !.src = nc.src + BlockSize,
                        !.pc = "store"]
    /\ UNCHANGED <<em, avfVars>>

\* vst1q_f32(dst, vcombine_f32(vcvt_f32_f64(d1), vcvt_f32_f64(d2))); ... dst += 16;
NeonStore ==
    /\ nc.pc = "store"
    /\ nc' = [nc EXCEPT !.output = [j \in 0..(Capacity - 1) |->
                                       IF j >= nc.dst /\ j < nc.dst + BlockSize
                                       THEN Narrow(nc.d[j - nc.dst + 1])
                                       ELSE nc.output[j]],
                        !.writes = nc.writes \cup (nc.dst..(nc.dst + BlockSize - 1)),
                        !.dst = nc.dst + BlockSize,
                        !.d = <<>>,
                        !.pc = "loop"]
    /\ UNCHANGED <<em, avfVars>>

\* for (size_t i = 0; i < remaining; i++) dst[i] = (float)src[i];
NeonTail ==
    /\ nc.pc = "tail"
    /\ nc' = IF nc.i < Remaining(nc.count)
             THEN [nc EXCEPT !.output[nc.dst + nc.i] = Narrow(nc.input[nc.src + nc.i]),
                             !.reads = nc.reads \cup {nc.src + nc.i},
                             !.writes = nc.writes \cup {nc.dst + nc.i},
                             !.i = nc.i + 1]
             ELSE [nc EXCEPT !.pc = "done"]
    /\ UNCHANGED <<em, avfVars>>

\* ------------------------------------------------------------- specifications
\* One host thread calls the engine; the render callback runs beside it.
HostThreads == {"h1"}

Next ==
    \/ \E t \in HostThreads : CallSetQueueSize(t)
    \/ \E t \in HostThreads : SetQueueSizeCheck(t)
    \/ \E t \in HostThreads : SetQueueSizeSet(t)
    \/ \E t \in HostThreads : SetupCompare(t)
    \/ \E t \in HostThreads : SetupCommit(t)
    \/ \E t \in HostThreads : CallEnable(t)
    \/ \E t \in HostThreads : EnableCheck(t)
    \/ \E t \in HostThreads : EnableSetRate(t)
    \/ \E t \in HostThreads : EnableLockTimestamp(t)
    \/ \E t \in HostThreads : EnableResetTimestamp(t)
    \/ \E t \in HostThreads : EnableLockQueue(t)
    \/ \E t \in HostThreads : EnableClearQueue(t)
    \/ \E t \in HostThreads : EnableRequestMediaData(t)
    \/ \E t \in HostThreads : EnableClearPaused(t)
    \/ \E t \in HostThreads : EnableSetEnabled(t)
    \/ \E t \in HostThreads : CallDisable(t)
    \/ \E t \in HostThreads : DisableCheck(t)
    \/ \E t \in HostThreads : DisableStopRequesting(t)
    \/ \E t \in HostThreads : DisableLockQueue(t)
    \/ \E t \in HostThreads : DisableClearQueue(t)
    \/ \E t \in HostThreads : DisableStopRate(t)
    \/ \E t \in HostThreads : DisableClearEnabled(t)
    \/ \E t \in HostThreads : DisableClearPaused(t)
    \/ \E t \in HostThreads : CallPause(t)
    \/ \E t \in HostThreads : PauseCheck(t)
    \/ \E t \in HostThreads : PauseSetPaused(t)
    \/ \E t \in HostThreads : PauseStopRate(t)
    \/ \E t \in HostThreads : CallResume(t)
    \/ \E t \in HostThreads : ResumeCheckEnabled(t)
    \/ \E t \in HostThreads : ResumeCheckPaused(t)
    \/ \E t \in HostThreads : ResumeStartRate(t)
    \/ \E t \in HostThreads : ResumeClearPaused(t)
    \/ \E t \in HostThreads : CallFlush(t)
    \/ \E t \in HostThreads : FlushCheck(t)
    \/ \E t \in HostThreads : FlushLockTimestamp(t)
    \/ \E t \in HostThreads : FlushResetTimestamp(t)
    \/ \E t \in HostThreads : FlushRenderer(t)
    \/ \E t \in HostThreads : CallFeedAudioData(t)
    \/ \E t \in HostThreads : FeedCheckEnabled(t)
    \/ \E t \in HostThreads : FeedCheckPaused(t)
    \/ \E t \in HostThreads : FeedLockQueue(t)
    \/ \E t \in HostThreads : FeedCheckFull(t)
    \/ \E t \in HostThreads : FeedAllocate(t)
    \/ \E t \in HostThreads : FeedStamp(t)
    \/ \E t \in HostThreads : FeedCreateSampleBuffer(t)
    \/ \E t \in HostThreads : FeedLockPush(t)
    \/ \E t \in HostThreads : FeedPush(t)
    \/ \E t \in HostThreads : HostReturn(t)
    \/ RenderInvoke
    \/ RenderCheckEnabled
    \/ RenderCheckPaused
    \/ RenderLockQueue
    \/ RenderPop
    \/ RenderEnqueue

Spec == Init /\ [][Next]_vars

\* The engine's format, enable, disable and feed operations, with
\* setupAudioFormat called by the host as well.
NextFormat ==
    \/ \E t \in HostThreads : CallSetupAudioFormat(t)
    \/ \E t \in HostThreads : CallSetupAudioFormatAgain(t)
    \/ \E t \in HostThreads : SetupCompare(t)
    \/ \E t \in HostThreads : SetupCommit(t)
    \/ \E t \in HostThreads : CallEnable(t)
    \/ \E t \in HostThreads : EnableCheck(t)
    \/ \E t \in HostThreads : EnableSetRate(t)
    \/ \E t \in HostThreads : EnableLockTimestamp(t)
    \/ \E t \in HostThreads : EnableResetTimestamp(t)
    \/ \E t \in HostThreads : EnableLockQueue(t)
    \/ \E t \in HostThreads : EnableClearQueue(t)
    \/ \E t \in HostThreads : EnableRequestMediaData(t)
    \/ \E t \in HostThreads : EnableClearPaused(t)
    \/ \E t \in HostThreads : EnableSetEnabled(t)
    \/ \E t \in HostThreads : CallDisable(t)
    \/ \E t \in HostThreads : DisableCheck(t)
    \/ \E t \in HostThreads : DisableStopRequesting(t)
    \/ \E t \in HostThreads : DisableLockQueue(t)
    \/ \E t \in HostThreads : DisableClearQueue(t)
    \/ \E t \in HostThreads : DisableStopRate(t)
    \/ \E t \in HostThreads : DisableClearEnabled(t)
    \/ \E t \in HostThreads : DisableClearPaused(t)
    \/ \E t \in HostThreads : CallFeedAudioData(t)
    \/ \E t \in HostThreads : FeedCheckEnabled(t)
    \/ \E t \in HostThreads : FeedCheckPaused(t)
    \/ \E t \in HostThreads : FeedLockQueue(t)
    \/ \E t \in HostThreads : FeedCheckFull(t)
    \/ \E t \in HostThreads : FeedAllocate(t)
    \/ \E t \in HostThreads : FeedStamp(t)
    \/ \E t \in HostThreads : FeedCreateSampleBuffer(t)
    \/ \E t \in HostThreads : FeedLockPush(t)
    \/ \E t \in HostThreads : FeedPush(t)
    \/ \E t \in HostThreads : HostReturn(t)

SpecFormat == Init /\ [][NextFormat]_vars

\* The producer's side under fair scheduling: setQueueSize, enable, pause and
\* feedAudioData on the host thread, and the render callback.
NextFeed ==
    \/ \E t \in HostThreads : CallSetQueueSize(t)
    \/ \E t \in HostThreads : SetQueueSizeCheck(t)
    \/ \E t \in HostThreads : SetQueueSizeSet(t)
    \/ \E t \in HostThreads : SetupCompare(t)
    \/ \E t \in HostThreads : SetupCommit(t)
    \/ \E t \in HostThreads : CallEnable(t)
    \/ \E t \in HostThreads : EnableCheck(t)
    \/ \E t \in HostThreads : EnableSetRate(t)
    \/ \E t \in HostThreads : EnableLockTimestamp(t)
    \/ \E t \in HostThreads : EnableResetTimestamp(t)
    \/ \E t \in HostThreads : EnableLockQueue(t)
    \/ \E t \in HostThreads : EnableClearQueue(t)
    \/ \E t \in HostThreads : EnableRequestMediaData(t)
    \/ \E t \in HostThreads : EnableClearPaused(t)
    \/ \E t \in HostThreads : EnableSetEnabled(t)
    \/ \E t \in HostThreads : CallPause(t)
    \/ \E t \in HostThreads : PauseCheck(t)
    \/ \E t \in HostThreads : PauseSetPaused(t)
    \/ \E t \in HostThreads : PauseStopRate(t)
    \/ \E t \in HostThreads : CallFeedAudioData(t)
    \/ \E t \in HostThreads : FeedCheckEnabled(t)
    \/ \E t \in HostThreads : FeedCheckPaused(t)
    \/ \E t \in HostThreads : FeedLockQueue(t)
    \/ \E t \in HostThreads : FeedCheckFull(t)
    \/ \E t \in HostThreads : FeedAllocate(t)
    \/ \E t \in HostThreads : FeedStamp(t)
    \/ \E t \in HostThreads : FeedCreateSampleBuffer(t)
    \/ \E t \in HostThreads : FeedLockPush(t)
    \/ \E t \in HostThreads : FeedPush(t)
    \/ \E t \in HostThreads : HostReturn(t)
    \/ RenderInvoke
    \/ RenderCheckEnabled
    \/ RenderCheckPaused
    \/ RenderLockQueue
    \/ RenderPop
    \/ RenderEnqueue

\* The steps of a feedAudioData call that wait for nothing.
FeedSteps(t) ==
    \/ FeedCheckEnabled(t)
    \/ FeedCheckPaused(t)
    \/ SetupCompare(t)
    \/ SetupCommit(t)
    \/ FeedCheckFull(t)
    \/ FeedAllocate(t)
    \/ FeedStamp(t)
    \/ FeedCreateSampleBuffer(t)
    \/ FeedPush(t)

\* The host thread keeps running, a lock_guard that is asked for again and again
\* while the mutex is free again and again is granted, and the render callback
\* leaves its lock_guard scope.  Nothing makes the render callback start.
FeedFairness ==
    /\ \A t \in HostThreads : WF_vars(FeedSteps(t))
    /\ \A t \in HostThreads : SF_vars(FeedLockQueue(t))
    /\ \A t \in HostThreads : SF_vars(FeedLockPush(t))
    /\ WF_vars(RenderPop)

SpecFeed == Init /\ [][NextFeed]_vars /\ FeedFairness

\* The engine with its query getCurrentLatency.
NextLatency ==
    \/ \E t \in HostThreads : SetupCompare(t)
    \/ \E t \in HostThreads : SetupCommit(t)
    \/ \E t \in HostThreads : CallEnable(t)
    \/ \E t \in HostThreads : EnableCheck(t)
    \/ \E t \in HostThreads : EnableSetRate(t)
    \/ \E t \in HostThreads : EnableLockTimestamp(t)
    \/ \E t \in HostThreads : EnableResetTimestamp(t)
    \/ \E t \in HostThreads : EnableLockQueue(t)
    \/ \E t \in HostThreads : EnableClearQueue(t)
    \/ \E t \in HostThreads : EnableRequestMediaData(t)
    \/ \E t \in HostThreads : EnableClearPaused(t)
    \/ \E t \in HostThreads : EnableSetEnabled(t)
    \/ \E t \in HostThreads : CallDisable(t)
    \/ \E t \in HostThreads : DisableCheck(t)
    \/ \E t \in HostThreads : DisableStopRequesting(t)
    \/ \E t \in HostThreads : DisableLockQueue(t)
    \/ \E t \in HostThreads : DisableClearQueue(t)
    \/ \E t \in HostThreads : DisableStopRate(t)
    \/ \E t \in HostThreads : DisableClearEnabled(t)
    \/ \E t \in HostThreads : DisableClearPaused(t)
    \/ \E t \in HostThreads : CallPause(t)
    \/ \E t \in HostThreads : PauseCheck(t)
    \/ \E t \in HostThreads : PauseSetPaused(t)
    \/ \E t \in HostThreads : PauseStopRate(t)
    \/ \E t \in HostThreads : CallFeedAudioData(t)
    \/ \E t \in HostThreads : FeedCheckEnabled(t)
    \/ \E t \in HostThreads : FeedCheckPaused(t)
    \/ \E t \in HostThreads : FeedLockQueue(t)
    \/ \E t \in HostThreads : FeedCheckFull(t)
    \/ \E t \in HostThreads : FeedAllocate(t)
    \/ \E t \in HostThreads : FeedStamp(t)
    \/ \E t \in HostThreads : FeedCreateSampleBuffer(t)
    \/ \E t \in HostThreads : FeedLockPush(t)
    \/ \E t \in HostThreads : FeedPush(t)
    \/ \E t \in HostThreads : CallGetCurrentLatency(t)
    \/ \E t \in HostThreads : LatencyCheck(t)
    \/ \E t \in HostThreads : LatencyLockQueue(t)
    \/ \E t \in HostThreads : LatencyRead(t)
    \/ \E t \in HostThreads : HostReturn(t)
    \/ RenderInvoke
    \/ RenderCheckEnabled
    \/ RenderCheckPaused
    \/ RenderLockQueue
    \/ RenderPop
    \/ RenderEnqueue

SpecLatency == Init /\ [][NextLatency]_vars

\* Two host threads: one feeds, the other enables, disables and flushes.  The
\* render callback, which touches neither the timeline nor timestampMutex, does
\* not run.
Producer == "h1"
Controller == "h2"

NextRace ==
    \/ CallFeedAudioData(Producer)
    \/ FeedCheckEnabled(Producer)
    \/ FeedCheckPaused(Producer)
    \/ SetupCompare(Producer)
    \/ SetupCommit(Producer)
    \/ FeedLockQueue(Producer)
    \/ FeedCheckFull(Producer)
    \/ FeedAllocate(Producer)
    \/ FeedReadTime(Producer)
    \/ FeedAdvanceTime(Producer)
    \/ FeedRecordTime(Producer)
    \/ FeedCreateSampleBuffer(Producer)
    \/ FeedLockPush(Producer)
    \/ FeedPush(Producer)
    \/ CallEnable(Controller)
    \/ EnableCheck(Controller)
    \/ EnableSetRate(Controller)
    \/ EnableLockTimestamp(Controller)
    \/ EnableResetTimestamp(Controller)
    \/ EnableLockQueue(Controller)
    \/ EnableClearQueue(Controller)
    \/ EnableRequestMediaData(Controller)
    \/ EnableClearPaused(Controller)
    \/ EnableSetEnabled(Controller)
    \/ CallDisable(Controller)
    \/ DisableCheck(Controller)
    \/ DisableStopRequesting(Controller)
    \/ DisableLockQueue(Controller)
    \/ DisableClearQueue(Controller)
    \/ DisableStopRate(Controller)
    \/ DisableClearEnabled(Controller)
    \/ DisableClearPaused(Controller)
    \/ CallFlush(Controller)
    \/ FlushCheck(Controller)
    \/ FlushLockTimestamp(Controller)
    \/ FlushResetTimestamp(Controller)
    \/ FlushRenderer(Controller)
    \/ \E t \in Hosts : HostReturn(t)

SpecRace == Init /\ [][NextRace]_vars

\* Two host threads: one pauses and resumes, the other enables and disables.
NextPause ==
    \/ CallPause(Producer)
    \/ PauseCheck(Producer)
    \/ PauseSetPaused(Producer)
    \/ PauseStopRate(Producer)
    \/ CallResume(Producer)
    \/ ResumeCheckEnabled(Producer)
    \/ ResumeCheckPaused(Producer)
    \/ ResumeStartRate(Producer)
    \/ ResumeClearPaused(Producer)
    \/ CallEnable(Controller)
    \/ EnableCheck(Controller)
    \/ EnableSetRate(Controller)
    \/ EnableLockTimestamp(Controller)
    \/ EnableResetTimestamp(Controller)
    \/ EnableLockQueue(Controller)
    \/ EnableClearQueue(Controller)
    \/ EnableRequestMediaData(Controller)
    \/ EnableClearPaused(Controller)
    \/ EnableSetEnabled(Controller)
    \/ CallDisable(Controller)
    \/ DisableCheck(Controller)
    \/ DisableStopRequesting(Controller)
    \/ DisableLockQueue(Controller)
    \/ DisableClearQueue(Controller)
    \/ DisableStopRate(Controller)
    \/ DisableClearEnabled(Controller)
    \/ DisableClearPaused(Controller)
    \/ \E t \in Hosts : HostReturn(t)

SpecPause == Init /\ [][NextPause]_vars

\* The legacy engine: one producer, one controlling thread and the completion
\* handlers of the player node.
LegacyProducerSteps ==
    \/ LegacyFeedFormat
    \/ LegacyFeedBuffer
    \/ LegacyFeedWait
    \/ LegacyFeedRecheck
    \/ LegacyFeedCount
    \/ LegacyFeedSchedule

LegacyControllerSteps ==
    \/ LegacyEnableSetup
    \/ LegacyEnableStart
    \/ LegacyDisableReset
    \/ LegacyDisableDisconnect
    \/ LegacyFlushReset

NextLegacy ==
    \/ LegacyFeedEnter
    \/ LegacyFeedFormat
    \/ LegacyFeedBuffer
    \/ LegacyFeedWait
    \/ LegacyFeedRecheck
    \/ LegacyFeedCount
    \/ LegacyFeedSchedule
    \/ LegacyCompletion
    \/ LegacyEnableCheck
    \/ LegacyEnableSetup
    \/ LegacyEnableStart
    \/ LegacyDisableCheck
    \/ LegacyDisableReset
    \/ LegacyDisableDisconnect
    \/ LegacyFlushCheck
    \/ LegacyFlushReset

\* An EngineManager after init; no AVFEngineImpl is involved.
InitLegacy == Init /\ ~hasRenderer

SpecLegacy == InitLegacy /\ [][NextLegacy]_vars

\* A thread inside a call keeps running; nothing makes a call or a completion
\* handler start.
LegacyFairness == WF_vars(LegacyProducerSteps) /\ WF_vars(LegacyControllerSteps)

SpecLegacyFair == SpecLegacy /\ LegacyFairness

\* neon_convert on its own.
NextConvert ==
    \/ CallNeonConvert
    \/ NeonLoopTest
    \/ NeonLoad
    \/ NeonStore
    \/ NeonTail

SpecConvert == InitLegacy /\ [][NextConvert]_vars

\* The engine with its query isReadyForMoreMediaData.
NextQuery ==
    \/ Next
    \/ \E t \in HostThreads : CallIsReady(t)
    \/ \E t \in HostThreads : ReadyCheckEnabled(t)
    \/ \E t \in HostThreads : ReadyCheckPaused(t)
    \/ \E t \in HostThreads : ReadyLockQueue(t)
    \/ \E t \in HostThreads : ReadyCompare(t)

SpecQuery == Init /\ [][NextQuery]_vars

\* isReadyForMoreMediaData followed by feedAudioData with nothing in between:
\* the host thread brings the engine into some state and returns; the query
\* runs (shown on a thread identifier of its own so that its answer stays
\* visible); while the answer stands only the next feedAudioData call runs.
ReadyAnswered == pc[Controller] = "done" /\ loc[Controller].op = "isReadyForMoreMediaData"

NextReady ==
    \/ pc[Controller] = "idle" /\ Next
    \/ pc[Producer] = "idle" /\ rpc = "idle" /\ CallIsReady(Controller)
    \/ ReadyCheckEnabled(Controller)
    \/ ReadyCheckPaused(Controller)
    \/ ReadyLockQueue(Controller)
    \/ ReadyCompare(Controller)
    \/ ReadyAnswered /\ CallFeedAudioData(Producer)
    \/ ReadyAnswered /\ FeedCheckEnabled(Producer)
    \/ ReadyAnswered /\ FeedCheckPaused(Producer)
    \/ ReadyAnswered /\ SetupCompare(Producer)
    \/ ReadyAnswered /\ SetupCommit(Producer)
    \/ ReadyAnswered /\ FeedLockQueue(Producer)
    \/ ReadyAnswered /\ FeedCheckFull(Producer)
    \/ ReadyAnswered /\ FeedAllocate(Producer)
    \/ ReadyAnswered /\ FeedStamp(Producer)
    \/ ReadyAnswered /\ FeedCreateSampleBuffer(Producer)
    \/ ReadyAnswered /\ FeedLockPush(Producer)
    \/ ReadyAnswered /\ FeedPush(Producer)
    \/ pc[Producer] \in {"idle", "done"} /\ HostReturn(Controller)

SpecReady == Init /\ [][NextReady]_vars

\* The engine with a render callback that keeps being invoked.
NextRender ==
    \/ \E t \in HostThreads : SetupCompare(t)
    \/ \E t \in HostThreads : SetupCommit(t)
    \/ \E t \in HostThreads : CallEnable(t)
    \/ \E t \in HostThreads : EnableCheck(t)
    \/ \E t \in HostThreads : EnableSetRate(t)
    \/ \E t \in HostThreads : EnableLockTimestamp(t)
    \/ \E t \in HostThreads : EnableResetTimestamp(t)
    \/ \E t \in HostThreads : EnableLockQueue(t)
    \/ \E t \in HostThreads : EnableClearQueue(t)
    \/ \E t \in HostThreads : EnableRequestMediaData(t)
    \/ \E t \in HostThreads : EnableClearPaused(t)
    \/ \E t \in HostThreads : EnableSetEnabled(t)
    \/ \E t \in HostThreads : CallPause(t)
    \/ \E t \in HostThreads : PauseCheck(t)
    \/ \E t \in HostThreads : PauseSetPaused(t)
    \/ \E t \in HostThreads : PauseStopRate(t)
    \/ \E t \in HostThreads : CallResume(t)
    \/ \E t \in HostThreads : ResumeCheckEnabled(t)
    \/ \E t \in HostThreads : ResumeCheckPaused(t)
    \/ \E t \in HostThreads : ResumeStartRate(t)
    \/ \E t \in HostThreads : ResumeClearPaused(t)
    \/ \E t \in HostThreads : CallFeedAudioData(t)
    \/ \E t \in HostThreads : FeedCheckEnabled(t)
    \/ \E t \in HostThreads : FeedCheckPaused(t)
    \/ \E t \in HostThreads : FeedLockQueue(t)
    \/ \E t \in HostThreads : FeedCheckFull(t)
    \/ \E t \in HostThreads : FeedAllocate(t)
    \/ \E t \in HostThreads : FeedStamp(t)
    \/ \E t \in HostThreads : FeedCreateSampleBuffer(t)
    \/ \E t \in HostThreads : FeedLockPush(t)
    \/ \E t \in HostThreads : FeedPush(t)
    \/ \E t \in HostThreads : HostReturn(t)
    \/ RenderInvoke
    \/ RenderCheckEnabled
    \/ RenderCheckPaused
    \/ RenderLockQueue
    \/ RenderPop
    \/ RenderEnqueue

\* A step of a call that is under way on thread t.
HostStep(t) == NextRender /\ pc[t] \notin {"idle", "done"} /\ pc'[t] # pc[t]

\* The renderer invokes the block registered by requestMediaDataWhenReadyOnQueue
\* whenever it stays registered, the callback runs to its end, its lock_guard is
\* granted when the mutex is free again and again, and a host thread inside a
\* call keeps running (so it leaves its own lock_guard scopes).  Nothing makes
\* the host start a call.
RenderFairness ==
    /\ WF_vars(RenderInvoke)
    /\ WF_vars(RenderCheckEnabled \/ RenderCheckPaused \/ RenderPop \/ RenderEnqueue)
    /\ SF_vars(RenderLockQueue)
    /\ \A t \in HostThreads : WF_vars(HostStep(t))

SpecRender == Init /\ [][NextRender]_vars /\ RenderFairness

\* The engine either on its own or as the member of an AVFOutput.
NextOutput ==
    \/ Next
    \/ OutputConstruct
    \/ OutputConstructEnable
    \/ OutputConstructActive
    \/ OutputProcessSamples
    \/ OutputProcessFeed
    \/ OutputProcessResult
    \/ OutputPause
    \/ OutputFlush
    \/ OutputForcePlay
    \/ OutputForcePlayEnable
    \/ OutputReturn

SpecOutput == (Init \/ InitOutput) /\ [][NextOutput]_vars


\* An AVFOutput and nothing else: the host reaches the engine only through the
\* methods of the output.
NextWrapper ==
    \/ OutputConstruct
    \/ OutputConstructEnable
    \/ OutputConstructActive
    \/ OutputProcessSamples
    \/ OutputProcessFeed
    \/ OutputProcessResult
    \/ OutputPause
    \/ OutputFlush
    \/ OutputForcePlay
    \/ OutputForcePlayEnable
    \/ OutputReturn
    \/ SetQueueSizeCheck(OutputThread)
    \/ SetQueueSizeSet(OutputThread)
    \/ SetupCompare(OutputThread)
    \/ SetupCommit(OutputThread)
    \/ EnableCheck(OutputThread)
    \/ EnableSetRate(OutputThread)
    \/ EnableLockTimestamp(OutputThread)
    \/ EnableResetTimestamp(OutputThread)
    \/ EnableLockQueue(OutputThread)
    \/ EnableClearQueue(OutputThread)
    \/ EnableRequestMediaData(OutputThread)
    \/ EnableClearPaused(OutputThread)
    \/ EnableSetEnabled(OutputThread)
    \/ DisableCheck(OutputThread)
    \/ DisableStopRequesting(OutputThread)
    \/ DisableLockQueue(OutputThread)
    \/ DisableClearQueue(OutputThread)
    \/ DisableStopRate(OutputThread)
    \/ DisableClearEnabled(OutputThread)
    \/ DisableClearPaused(OutputThread)
    \/ PauseCheck(OutputThread)
    \/ PauseSetPaused(OutputThread)
    \/ PauseStopRate(OutputThread)
    \/ ResumeCheckEnabled(OutputThread)
    \/ ResumeCheckPaused(OutputThread)
    \/ ResumeStartRate(OutputThread)
    \/ ResumeClearPaused(OutputThread)
    \/ FlushCheck(OutputThread)
    \/ FlushLockTimestamp(OutputThread)
    \/ FlushResetTimestamp(OutputThread)
    \/ FlushRenderer(OutputThread)
    \/ FeedCheckEnabled(OutputThread)
    \/ FeedCheckPaused(OutputThread)
    \/ FeedLockQueue(OutputThread)
    \/ FeedCheckFull(OutputThread)
    \/ FeedAllocate(OutputThread)
    \/ FeedStamp(OutputThread)
    \/ FeedCreateSampleBuffer(OutputThread)
    \/ FeedLockPush(OutputThread)
    \/ FeedPush(OutputThread)
    \/ RenderInvoke
    \/ RenderCheckEnabled
    \/ RenderCheckPaused
    \/ RenderLockQueue
    \/ RenderPop
    \/ RenderEnqueue

SpecWrapper == InitOutput /\ [][NextWrapper]_vars

\* ---------------------------------------------------------------- properties
Min(a, b) == IF a < b THEN a ELSE b

Quiet == \A t \in Hosts : pc[t] \in {"idle", "done"}

Returned(t, op) == pc[t] = "done" /\ loc[t].op = op

\* pause() has returned with the engine paused and resume() has not been called.
PauseInEffect ==
    /\ isPaused
    /\ \A t \in Hosts : /\ loc[t].op = "pause" => pc[t] = "done"
                        /\ loc[t].op # "resume"

\* disable() has returned and enable() has not been called since.
DisableReturned ==
    /\ ~isEnabled
    /\ ~requesting
    /\ \A t \in Hosts : /\ loc[t].op = "disable" => pc[t] = "done"
                        /\ loc[t].op # "enable"

\* C1: the queue never holds more than maxQueueSize buffers, and feedAudioData
\* never pushes onto a queue that already holds maxQueueSize buffers.
C1_QueueBounded ==
    /\ 0 <= Len(sampleQueue)
    /\ Len(sampleQueue) <= maxQueueSize
    /\ \A t \in Hosts : pc[t] = "f_push" => Len(sampleQueue) < maxQueueSize

\* C2: consecutive valid feeds into an empty queue of an enabled engine, with no
\* render in between: the first maxQueueSize calls return frameCount, every later
\* call returns 0, and pendingBufferCount is the smaller of the two numbers.
C2_Backpressure ==
    burst.active =>
        /\ \A i \in 1..Len(burst.rets) :
              burst.rets[i] = IF i <= maxQueueSize THEN "all" ELSE "zero"
        /\ Quiet => pendingBufferCount = Min(Len(burst.rets), maxQueueSize)

C2_Witness ==
    /\ burst.active
    /\ maxQueueSize = 2
    /\ burst.rets = <<"all", "all", "zero">>
    /\ Quiet
    /\ pendingBufferCount = 2

\* C3: when flush() returns on an enabled or paused engine, pendingBufferCount is 0
\* and the timeline is back at 0 for the next buffer.
C3_FlushClears ==
    \A t \in Hosts :
        (Returned(t, "flush") /\ loc[t].outcome = "flushed") =>
            /\ pendingBufferCount = 0
            /\ CMTimeEqual(nextPresentationTime, kCMTimeZero)

\* C4: the first buffer built after a timeline reset has presentation time 0, and
\* each later one starts exactly where the previous built buffer ended.
C4_GaplessTimeline ==
    \A t \in Hosts :
        pc[t] \in {"f_lockpush", "f_push"} => CMTimeEqual(loc[t].cpt, expectedPts)

\* C5: no step of pause() changes the queue, and while a returned pause() is in
\* effect no step of renderFromQueue removes a buffer.
C5_PausePreservesQueue ==
    [][/\ (\E t \in Hosts : loc[t].op = "pause" /\ pc'[t] # pc[t])
              => sampleQueue' = sampleQueue
       /\ (PauseInEffect /\ rpc' # rpc) => sampleQueue' = sampleQueue]_vars

\* C6: buffers reach the renderer in arrival order and at most once each; what the
\* render callback holds or has delivered is older than everything still queued.
C6_FifoDelivery ==
    /\ \A i, j \in DOMAIN rendered : i < j => rendered[i] < rendered[j]
    /\ \A i \in DOMAIN rendered : rendered[i] \in 1..pushed
    /\ \A i, j \in DOMAIN sampleQueue : i < j => sampleQueue[i].id < sampleQueue[j].id
    /\ \A i \in DOMAIN rendered, k \in DOMAIN sampleQueue : rendered[i] < sampleQueue[k].id
    /\ rbuf # NoBuffer =>
          /\ \A i \in DOMAIN rendered : rendered[i] < rbuf.id
          /\ \A k \in DOMAIN sampleQueue : rbuf.id < sampleQueue[k].id

\* A buffer is delivered after a pause()/resume() pair, with a newer one still queued.
C6_Witness ==
    /\ Returned("h1", "resume")
    /\ loc["h1"].outcome = "resumed"
    /\ rpc = "rq_enqueue"
    /\ rendered # <<>>
    /\ sampleQueue # <<>>

\* C8: whenever disable() returns the engine is Disabled and not paused, the queue
\* is empty and every buffer that left it is released (the render callback may
\* still hold the one it popped); called on a Disabled engine it changes nothing.
C8_Disable ==
    [][\A t \in Hosts :
          (loc[t].op = "disable" /\ pc[t] # "done" /\ pc'[t] = "done") =>
              /\ ~isEnabled'
              /\ ~isPaused'
              /\ sampleQueue' = <<>>
              /\ \A id \in 1..pushed' :
                    releaseCount'[id] = IF rbuf'.id = id THEN 0 ELSE 1
              /\ pc[t] = "di_check" =>
                    UNCHANGED <<isEnabled, isPaused, sampleQueue, maxQueueSize, timeVars,
                                currentFormat, sinkVars, releaseCount>>]_vars

\* disable() returns after releasing a buffer that was never rendered.
C8_Witness ==
    /\ Returned("h1", "disable")
    /\ loc["h1"].outcome = "disabled"
    /\ \E id \in 1..pushed :
          /\ releaseCount[id] = 1
          /\ \A i \in DOMAIN rendered : rendered[i] # id

\* C9: once disable() has returned, no step of renderFromQueue reads the sample
\* queue or hands a buffer to the renderer.
C9_NoRenderAfterDisable ==
    [][(DisableReturned /\ rpc \in {"rq_pop", "rq_enqueue"}) => rpc' = rpc]_vars

\* C10: when enable() returns true after being called on a Disabled engine, the
\* engine is enabled and not paused, the queue is empty, nextPresentationTime is
\* zero and lastBufferPresentationTime is invalid.
C10_EnableResult ==
    \A t \in Hosts :
        (Returned(t, "enable") /\ loc[t].outcome = "enabled") =>
            /\ isEnabled
            /\ ~isPaused
            /\ sampleQueue = <<>>
            /\ nextPresentationTime = kCMTimeZero
            /\ lastBufferPresentationTime = kCMTimeInvalid

\* enable() returns true on an engine whose earlier session had advanced the timeline.
C10_Witness ==
    /\ Returned("h1", "enable")
    /\ loc["h1"].outcome = "enabled"
    /\ pushed > 0

\* C7 as stated: feedAudioData returns 0 or frameCount, it returns frameCount
\* exactly when the call appended one unit, and process_samples_v2 returns a
\* non-zero count only when it is the count the engine returned.
C7_FeedResult ==
    /\ \A t \in Hosts :
          Returned(t, "feedAudioData") =>
              /\ loc[t].ret \in {0, loc[t].frameCount}
              /\ loc[t].appended \in {0, 1}
              /\ (loc[t].ret = loc[t].frameCount) <=> (loc[t].appended = 1)
    /\ (wpc = "w_psv2_return" /\ wret # 0) =>
          /\ Returned(OutputThread, "feedAudioData")
          /\ wret = loc[OutputThread].ret

\* C7 amended: the equivalence is stated for calls with frameCount > 0; a call
\* with frameCount = 0 returns 0 and appends nothing.
C7_FeedResultNonEmpty ==
    /\ \A t \in Hosts :
          Returned(t, "feedAudioData") =>
              /\ loc[t].ret \in {0, loc[t].frameCount}
              /\ loc[t].appended \in {0, 1}
              /\ loc[t].frameCount > 0 =>
                    ((loc[t].ret = loc[t].frameCount) <=> (loc[t].appended = 1))
              /\ loc[t].frameCount = 0 => (loc[t].ret = 0 /\ loc[t].appended = 0)
    /\ (wpc = "w_psv2_return" /\ wret # 0) =>
          /\ Returned(OutputThread, "feedAudioData")
          /\ wret = loc[OutputThread].ret

C7_Witness ==
    /\ wpc = "w_psv2_return"
    /\ wret = 2
    /\ Returned(OutputThread, "feedAudioData")
    /\ loc[OutputThread].appended = 1
    /\ pendingBufferCount = OutputQueueSize

\* The engine's own state: flags, queue, capacity, timeline, format, sink.
engineVars == <<isEnabled, isPaused, sampleQueue, maxQueueSize, nextPresentationTime,
                lastBufferPresentationTime, currentFormat, syncRate, requesting>>

\* Thread t takes a step of the call of op it is in (not the hand-over of the result).
StepOf(t, op) == loc[t].op = op /\ pc[t] # "done" /\ pc'[t] # pc[t]

\* C11: enable() on an engine that is already Enabled or Paused returns true at
\* once and changes neither the flags, the queue, the timeline nor the capacity.
C11_EnableIdempotent ==
    [][\A t \in Hosts :
          (StepOf(t, "enable") /\ pc[t] = "en_check" /\ isEnabled) =>
              /\ pc'[t] = "done"
              /\ loc'[t].ok = TRUE
              /\ UNCHANGED engineVars]_vars

\* enable() has returned true on a Paused engine that holds queued buffers.
C11_Witness ==
    /\ Returned("h1", "enable")
    /\ loc["h1"].outcome = "already"
    /\ loc["h1"].ok
    /\ isEnabled
    /\ isPaused
    /\ sampleQueue # <<>>
    /\ ~CMTimeEqual(nextPresentationTime, kCMTimeZero)

\* C12: enable() on a Disabled engine without renderer or synchronizer returns
\* false and changes nothing; nothing is latched, so the next enable() takes the
\* same decision from the same state.
C12_EnableFailure ==
    [][\A t \in Hosts :
          (StepOf(t, "enable") /\ pc[t] = "en_check" /\ ~isEnabled /\ ~hasRenderer) =>
              /\ pc'[t] = "done"
              /\ loc'[t].ok = FALSE
              /\ ~isEnabled'
              /\ UNCHANGED engineVars
              /\ UNCHANGED <<nc, em, hasRenderer, timestampMutex, sampleQueueMutex>>]_vars

\* enable() has returned false and the engine is as it was constructed.
C12_Witness ==
    /\ Returned("h1", "enable")
    /\ loc["h1"].outcome = "missing"
    /\ ~loc["h1"].ok
    /\ ~isEnabled
    /\ ~isPaused
    /\ sampleQueue = <<>>

C14_Resume ==
    [][\A t \in Hosts :
          StepOf(t, "resume") =>
              /\ UNCHANGED <<isEnabled, sampleQueue, maxQueueSize, nextPresentationTime,
                             lastBufferPresentationTime, currentFormat>>
              /\ (~isEnabled \/ ~isPaused) => UNCHANGED engineVars
              /\ (pc'[t] = "done" /\ isEnabled /\ isPaused) => (isEnabled' /\ ~isPaused')]_vars

\* resume() has returned on an engine that was Paused and holds queued buffers.
C14_Witness ==
    /\ Returned("h1", "resume")
    /\ loc["h1"].outcome = "resumed"
    /\ isEnabled
    /\ ~isPaused
    /\ syncRate = 1
    /\ sampleQueue # <<>>
    /\ rpc = "idle"

\* C15: no step of flush() changes the enabled or the paused flag, and flush() on
\* a Disabled engine returns at once without changing anything.
C15_FlushKeepsState ==
    [][\A t \in Hosts :
          StepOf(t, "flush") =>
              /\ UNCHANGED <<isEnabled, isPaused>>
              /\ ~isEnabled => (pc'[t] = "done" /\ UNCHANGED engineVars)]_vars

\* flush() has returned on a Paused engine, which is still Paused.
C15_Witness ==
    /\ Returned("h1", "flush")
    /\ loc["h1"].outcome = "flushed"
    /\ isEnabled
    /\ isPaused

C18_FeedGate ==
    [][\A t \in Hosts :
          (StepOf(t, "feedAudioData") /\ (~isEnabled \/ isPaused)) =>
              /\ pc[t] \in {"f_enabled", "f_paused"}
              /\ pc'[t] \in {"f_paused", "done"}
              /\ pc'[t] = "done" => (loc'[t].ret = 0 /\ loc'[t].appended = 0)
              /\ UNCHANGED engineVars]_vars

\* A feed of a valid chunk has returned 0 from the gate of a Paused engine.
C18_Witness ==
    /\ Returned("h1", "feedAudioData")
    /\ loc["h1"].outcome = "gate"
    /\ loc["h1"].frameCount > 0
    /\ loc["h1"].ret = 0
    /\ isEnabled
    /\ isPaused
    /\ sampleQueue # <<>>

\* C19: a feedAudioData call with an empty sample vector, frameCount = 0 or
\* channels = 0 gets no further than the argument check, returns 0, appends
\* nothing and changes no engine state.
C19_FeedInvalid ==
    [][\A t \in Hosts :
          (/\ StepOf(t, "feedAudioData")
           /\ (loc[t].dataSize = 0 \/ loc[t].frameCount = 0 \/ loc[t].channels = 0)) =>
              /\ pc[t] \in {"f_enabled", "f_paused"}
              /\ pc'[t] \in {"f_paused", "done"}
              /\ pc'[t] = "done" => (loc'[t].ret = 0 /\ loc'[t].appended = 0)
              /\ UNCHANGED engineVars]_vars

\* An Enabled, not paused engine has rejected a chunk for its arguments.
C19_Witness ==
    /\ Returned("h1", "feedAudioData")
    /\ loc["h1"].outcome = "invalid"
    /\ loc["h1"].ret = 0
    /\ isEnabled
    /\ ~isPaused
    /\ currentFormat = NoFormat

\* C20: a feedAudioData call that finds the queue full returns 0 in that very
\* step, and no step of the call up to there changes the queue or the timeline.
C20_FeedFull ==
    [][\A t \in Hosts :
          StepOf(t, "feedAudioData") =>
              /\ (pc[t] = "f_full" /\ Len(sampleQueue) >= maxQueueSize) =>
                    (pc'[t] = "done" /\ loc'[t].ret = 0 /\ loc'[t].appended = 0)
              /\ pc[t] \in {"f_enabled", "f_paused", "sf_cmp", "sf_commit", "f_lockq", "f_full"} =>
                    UNCHANGED <<sampleQueue, nextPresentationTime,
                                lastBufferPresentationTime>>]_vars

\* A feed of a valid chunk has returned 0 because the queue was full.
C20_Witness ==
    /\ Returned("h1", "feedAudioData")
    /\ loc["h1"].outcome = "full"
    /\ loc["h1"].frameCount > 0
    /\ loc["h1"].ret = 0
    /\ Len(sampleQueue) = maxQueueSize

\* C16: the value isReadyForMoreMediaData returns is true exactly when, at the
\* step that returns it, the engine is enabled, not paused and the queue holds
\* fewer than maxQueueSize buffers.
C16_ReadyIff ==
    [][\A t \in Hosts :
          (StepOf(t, "isReadyForMoreMediaData") /\ pc'[t] = "done") =>
              (loc'[t].ok <=>
                  (isEnabled /\ ~isPaused /\ Len(sampleQueue) < maxQueueSize))]_vars

\* The query has answered false on an Enabled, not paused engine whose queue is full.
C16_Witness ==
    /\ Returned("h1", "isReadyForMoreMediaData")
    /\ loc["h1"].outcome = "compared"
    /\ ~loc["h1"].ok
    /\ isEnabled
    /\ ~isPaused
    /\ Len(sampleQueue) = maxQueueSize

\* C21: a setupAudioFormat call that repeats, with the same arguments, a call
\* that returned true returns true from the comparison: it builds no format and
\* leaves the current format as the first call left it.
C21_FormatIdempotent ==
    [][\A t \in Hosts :
          (StepOf(t, "setupAudioFormat") /\ loc[t].caller = "again") =>
              /\ pc[t] = "sf_cmp"
              /\ pc'[t] = "done"
              /\ loc'[t].ok
              /\ loc'[t].fmt = NoFormat
              /\ UNCHANGED engineVars]_vars

\* The repeated call has returned true with the format the first call committed.
C21_Witness ==
    /\ Returned("h1", "setupAudioFormat")
    /\ loc["h1"].caller = "again"
    /\ loc["h1"].ok
    /\ currentFormat = AVAudioFormat(2, 3)

\* C22: a feedAudioData call whose format setup fails returns 0 in that step,
\* with the queue, the timeline and the current format as they were; and a
\* feedAudioData call only gets to enqueue a buffer while the current format is
\* a format of its own sample rate and channel count.
C22_FormatFailure ==
    /\ [][\A t \in Hosts :
             (StepOf(t, "feedAudioData") /\ pc[t] \in {"sf_cmp", "sf_commit"}
                 /\ pc'[t] = "done") =>
                 /\ loc'[t].ret = 0
                 /\ loc'[t].appended = 0
                 /\ UNCHANGED <<sampleQueue, pushed, nextPresentationTime,
                                lastBufferPresentationTime, stamped, currentFormat>>]_vars
    /\ [](\A t \in Hosts :
             (loc[t].op = "feedAudioData" /\ pc[t] = "f_push") =>
                 /\ ~currentFormat.isNil
                 /\ currentFormat.sampleRate = loc[t].sampleRate
                 /\ currentFormat.channelCount = loc[t].channels)

\* A feed has failed on its format while an earlier format was committed and a
\* buffer of that format is queued.
C22_Witness ==
    /\ Returned("h1", "feedAudioData")
    /\ loc["h1"].outcome = "format"
    /\ loc["h1"].ret = 0
    /\ ~currentFormat.isNil
    /\ Len(sampleQueue) > 0

\* C23: no buffer is released twice, a buffer still queued or held by the render
\* callback has not been released, and once disable() has returned with no
\* feedAudioData call in progress every buffer that was pushed has been released.
C23_ReleasedOnce ==
    /\ \A id \in 1..MaxBuffers : releaseCount[id] <= 1
    /\ \A k \in DOMAIN sampleQueue : releaseCount[sampleQueue[k].id] = 0
    /\ rbuf # NoBuffer => releaseCount[rbuf.id] = 0
    /\ (DisableReturned /\ \A t \in Hosts : loc[t].op = "feedAudioData" => pc[t] = "done")
          => \A id \in 1..pushed : releaseCount[id] = 1

\* The position of a feedAudioData call in its code.
FeedRank(p) ==
    CASE p = "f_enabled" -> 1
      [] p = "f_paused" -> 2
      [] p = "sf_cmp" -> 3
      [] p = "sf_commit" -> 4
      [] p = "f_lockq" -> 5
      [] p = "f_full" -> 6
      [] p = "f_alloc" -> 7
      [] p = "f_stamp" -> 8
      [] p = "f_create" -> 9
      [] p = "f_lockpush" -> 10
      [] p = "f_push" -> 11
      [] OTHER -> 12

FeedInProgress(t) == loc[t].op = "feedAudioData" /\ pc[t] \notin {"idle", "done"}

\* C24: every step of a feedAudioData call moves it forward in its code, so a call
\* takes at most eleven steps, and every call that has started returns, whether or
\* not the render callback ever runs.
C24_FeedTerminates ==
    /\ [][\A t \in Hosts :
             (FeedInProgress(t) /\ pc'[t] # pc[t]) =>
                 FeedRank(pc'[t]) > FeedRank(pc[t])]_vars
    /\ \A t \in HostThreads : FeedInProgress(t) ~> Returned(t, "feedAudioData")

\* A feed has returned 0 from a full queue that the render callback, although
\* requested, has never started to drain.
C24_Witness ==
    /\ Returned("h1", "feedAudioData")
    /\ loc["h1"].outcome = "full"
    /\ requesting
    /\ rendered = <<>>
    /\ rpc = "idle"
    /\ rbuf = NoBuffer

\* C25: getCurrentLatency returns 10 ms when the engine is disabled or has no
\* format, and otherwise 15 ms for each buffer in the queue plus 10 ms, whatever
\* the frame counts of the queued buffers are.
C25_Latency ==
    [][\A t \in Hosts :
          (StepOf(t, "getCurrentLatency") /\ pc'[t] = "done") =>
              loc'[t].ret = IF isEnabled /\ ~currentFormat.isNil
                            THEN Len(sampleQueue) * 15 + 10
                            ELSE 10]_vars

\* getCurrentLatency has returned 40 ms for a queue of two buffers that differ in
\* their frame counts.
C25_Witness ==
    /\ Returned("h1", "getCurrentLatency")
    /\ loc["h1"].ret = 40
    /\ Len(sampleQueue) = 2
    /\ sampleQueue[1].frameCount # sampleQueue[2].frameCount

\* C26: whenever timestampMutex is free, the timeline is either reset
\* (nextPresentationTime 0, lastBufferPresentationTime invalid) or consistent:
\* lastBufferPresentationTime is valid and nextPresentationTime is
\* lastBufferPresentationTime plus the duration of the last buffer that took a
\* timestamp.
C26_TimelineAtomic ==
    timestampMutex = NoThread =>
        \/ /\ nextPresentationTime = kCMTimeZero
           /\ lastBufferPresentationTime = kCMTimeInvalid
        \/ /\ lastBufferPresentationTime # kCMTimeInvalid
           /\ CMTimeEqual(nextPresentationTime,
                          CMTimeAdd(lastBufferPresentationTime, lastDuration))

\* flush() waits for timestampMutex while a feed that has already taken one
\* timestamp is in the middle of taking the next.
C26_Witness ==
    /\ pc[Controller] = "fl_lockts"
    /\ pc[Producer] = "f_record"
    /\ timestampMutex = Producer
    /\ stamped = 2

\* Where a thread asks for sampleQueueMutex, and where for timestampMutex.
QueueLockPoints ==
    {"sq_check", "en_lockq", "di_lockq", "f_lockq", "f_lockpush", "rd_lock", "gl_lock"}

TimestampLockPoints == {"en_lockts", "fl_lockts", "f_alloc"}

\* C27: no thread holds timestampMutex and sampleQueueMutex together, nor asks
\* for one of them while it holds the other; so no two threads each hold one of
\* the two and wait for the other.
C27_NoNestedLocks ==
    /\ \A t \in Hosts :
          /\ ~(timestampMutex = t /\ sampleQueueMutex = t)
          /\ timestampMutex = t => pc[t] \notin QueueLockPoints
          /\ sampleQueueMutex = t => pc[t] \notin TimestampLockPoints
    /\ timestampMutex # RenderThread
    /\ ~ \E t, u \in Hosts :
            /\ t # u
            /\ timestampMutex = t /\ pc[t] \in QueueLockPoints
            /\ sampleQueueMutex = u /\ pc[u] \in TimestampLockPoints

\* enable() holds timestampMutex while feedAudioData holds sampleQueueMutex.
C27_Witness ==
    /\ timestampMutex = Controller
    /\ pc[Controller] = "en_reset"
    /\ sampleQueueMutex = Producer
    /\ pc[Producer] = "f_push"

\* C28: the legacy feedAudioData counts a buffer in only while _pendingBuffers is
\* below _maxPendingBuffers, and the buffers scheduled on the player node whose
\* completion handler has not run are never more than _maxPendingBuffers.
C28_PendingBound ==
    /\ em.ppc \in {"lf_count", "lf_schedule"} => em.pendingBuffers <= 3
    /\ em.pendingBuffers <= 3
    /\ em.scheduled + em.cancelled <= 3

\* C29: a producer blocked in the legacy feedAudioData when disable() is under way
\* leaves feedAudioData, and a producer woken by disable() does not go on to count
\* and schedule its buffer.
C29_DisableReleases ==
    /\ (em.ppc = "lf_blocked" /\ em.cpc = "ld_reset") ~> em.ppc = "idle"
    /\ [][(em.ppc = "lf_count" /\ em'.ppc = "lf_schedule") => em.wokenBy # "disable"]_vars

\* C30: when the legacy enable() returns false because the audio engine did not
\* start, _isEnabled is false and _nodesConnected and _currentFormat are what they
\* were when enable() was called.
C30_EnableFailure ==
    [][(em.cpc = "le_start" /\ em'.cpc = "idle" /\ ~em'.result.ok) =>
          /\ ~em'.isEnabled
          /\ em'.nodesConnected = em.saved.nodesConnected
          /\ em'.currentFormat = em.saved.currentFormat]_vars

\* The scalar conversion: output[i] = (float)input[i] for i < count.
ScalarConvert(input, count) ==
    [i \in 0..(Capacity - 1) |-> IF i < count THEN Narrow(input[i]) ELSE Untouched]

\* C31: neon_convert never reads or writes an index at or past count, and when it
\* returns the output holds the narrowed input at every index below count, which
\* is what the scalar element-by-element cast yields.
C31_NeonConvert ==
    /\ \A i \in nc.reads \cup nc.writes : 0 <= i /\ i < nc.count
    /\ nc.pc = "done" =>
          /\ \A i \in 0..(nc.count - 1) : nc.output[i] = Narrow(nc.input[i])
          /\ nc.output = ScalarConvert(nc.input, nc.count)

\* A call with two full blocks and one element left over has returned.
C31_Witness ==
    /\ nc.pc = "done"
    /\ nc.count = 33
    /\ nc.writes = 0..32
    /\ nc.output[32] # nc.input[32]

\* C32: in the legacy engine _pendingBuffers is never negative and equals the
\* number of buffers scheduled on the player node whose completion handler has
\* not run (the producer between its increment and scheduleBuffer counts one
\* buffer ahead).
C32_PendingCount ==
    /\ em.pendingBuffers >= 0
    /\ em.pendingBuffers =
          em.scheduled + em.cancelled + (IF em.ppc = "lf_schedule" THEN 1 ELSE 0)

\* C33: whenever the engine is Disabled and no operation is in progress on any
\* host thread, the sample queue is empty.
C33_DisabledQueueEmpty ==
    (~isEnabled /\ Quiet) => sampleQueue = <<>>

\* C34: whenever no operation is in progress, _isPaused implies _isEnabled: the
\* flags never settle in Disabled-and-paused, also when pause() or resume() on
\* one thread interleaves with disable() or enable() on another.
C34_PausedImpliesEnabled ==
    Quiet => (isPaused => isEnabled)

\* C35: when a feedAudioData call has returned 0, on whatever rejection path,
\* nextPresentationTime is still the end of the last unit accepted since the
\* last timeline reset (0 when there is none): the rejected call did not move it.
C35_RejectedFeedKeepsTimeline ==
    \A t \in HostThreads :
        (Returned(t, "feedAudioData") /\ loc[t].ret = 0) =>
            CMTimeEqual(nextPresentationTime, expectedPts)

\* C36: when isReadyForMoreMediaData has answered and the next operation is a
\* feedAudioData call with valid arguments in which format setup, allocation and
\* sample-buffer creation succeed, that call returns frameCount after an answer
\* of true and 0 after an answer of false.
C36_ReadyPredictsFeed ==
    [][(/\ ReadyAnswered
        /\ StepOf(Producer, "feedAudioData")
        /\ pc'[Producer] = "done"
        /\ loc'[Producer].outcome \notin {"invalid", "format", "alloc", "create"})
         => /\ loc[Controller].ok =>
                  /\ loc'[Producer].outcome = "accepted"
                  /\ loc'[Producer].ret = loc[Producer].frameCount
                  /\ loc'[Producer].ret > 0
            /\ ~loc[Controller].ok => loc'[Producer].ret = 0]_vars

\* The query has answered true with one unit queued and the feed that followed
\* has been accepted.
C36_Witness ==
    /\ ReadyAnswered
    /\ loc[Controller].ok
    /\ Returned(Producer, "feedAudioData")
    /\ loc[Producer].outcome = "accepted"
    /\ Len(sampleQueue) = 2

InQueue(k) == \E i \in DOMAIN sampleQueue : sampleQueue[i].id = k

WasRendered(k) == \E i \in DOMAIN rendered : rendered[i] = k

\* C37: with a render callback that keeps being invoked, every unit in the queue
\* is eventually handed to the renderer unless the engine leaves the Enabled,
\* not paused state, and under the same condition a non-empty queue eventually
\* becomes empty (the host feeds finitely often).
C37_EventuallyRendered ==
    /\ \A k \in 1..MaxUnits :
          InQueue(k) ~> (WasRendered(k) \/ ~isEnabled \/ isPaused)
    /\ (sampleQueue # <<>>) ~> (sampleQueue = <<>> \/ ~isEnabled \/ isPaused)

\* Three units were accepted and all three have reached the renderer, in order,
\* while the engine is Enabled and not paused.
C37_Witness ==
    /\ isEnabled
    /\ ~isPaused
    /\ pushed = MaxUnits
    /\ Len(rendered) = MaxUnits
    /\ sampleQueue = <<>>

\* C38: whenever no method of the AVFOutput is running, is_active equals the
\* engine's _isEnabled, and on an active output is_paused equals _isPaused.
C38_WrapperMirrorsEngine ==
    wpc = "w_idle" =>
        /\ is_active = isEnabled
        /\ is_active => (is_paused = isPaused)

\* pause(true) has returned on an active output that holds a unit: both pause
\* flags are set.
C38_Witness ==
    /\ wpc = "w_idle"
    /\ is_active
    /\ is_paused
    /\ isPaused
    /\ sampleQueue # <<>>

\* C39: when the engine.enable() call of force_play() (or of the constructor)
\* has returned on an active output, the engine is Enabled and not paused,
\* is_paused is false, the queue is empty and nextPresentationTime is 0.
C39_ForcePlayRestarts ==
    (/\ wpc = "w_return"
     /\ Returned(OutputThread, "enable")
     /\ is_active) =>
        /\ isEnabled
        /\ ~isPaused
        /\ ~is_paused
        /\ sampleQueue = <<>>
        /\ CMTimeEqual(nextPresentationTime, kCMTimeZero)

\* force_play() has returned to its last line on an output that had accepted
\* two units and handed none to the renderer: both were discarded.
C39_Witness ==
    /\ wpc = "w_return"
    /\ Returned(OutputThread, "enable")
    /\ is_active
    /\ pushed = 2
    /\ rendered = <<>>
    /\ rbuf = NoBuffer
    /\ sampleQueue = <<>>
    /\ isEnabled

\* C40: when a setupAudioFormat(sampleRate, channels) call made by the host has
\* returned true, the current format is not nil and has that sample rate and
\* that channel count.
C40_SetupTrueMeansFormat ==
    \A t \in Hosts :
        (Returned(t, "setupAudioFormat") /\ loc[t].ok) =>
            /\ ~currentFormat.isNil
            /\ currentFormat.sampleRate = loc[t].sampleRate
            /\ currentFormat.channelCount = loc[t].channels

====
